---- MODULE Spec2Model ----
(***************************************************************************)
(* A model of the font session cache and the binary-rewrite engine of     *)
(* src-tauri/src/font_parser.rs.                                           *)
(*                                                                         *)
(* Byte buffers (Vec<u8>, &[u8]) are kept run-length encoded: a buffer is *)
(* a sequence of runs <<byte, count>>, count > 0, adjacent runs holding    *)
(* different bytes.  The encoding is canonical, so two buffers are equal   *)
(* exactly when they hold the same bytes, and a glyf table of more than    *)
(* 0x1FFFE bytes is a small value.                                         *)
(*                                                                         *)
(* u32 and usize values that may exceed the range of the model checker's   *)
(* integers are kept as little-endian sequences of 16-bit limbs: two limbs *)
(* for a u32, four for a 64-bit usize.                                     *)
(***************************************************************************)
EXTENDS Integers, Sequences, FiniteSets, TLC

VARIABLES
    disk,           \* the bytes of the font file at the path
    fonts,          \* FontCache.fonts: the bytes cached for the path, or None
    outlines,       \* FontCache.outlines: the CachedOutlines of the path, or None
    fonts_lock,     \* holder of the Mutex around FontCache.fonts, or NoThread
    outlines_lock,  \* holder of the Mutex around FontCache.outlines, or NoThread
    pc,             \* per thread: the place it has reached in its operation
    op,             \* per thread: the operation it runs and its arguments
    bytes,          \* per thread: the local `bytes` it read
    new_bytes,      \* per thread: the local `new_bytes` / `final_bytes` it built
    extracted,      \* per thread: the CachedOutlines it built and has not inserted yet
    result,         \* per thread: what the operation returned
    overflow_checks, \* TRUE when the build panics on integer overflow
    call,           \* the arguments of a direct call of a pure function
    ret             \* the value that call returned

vars == <<disk, fonts, outlines, fonts_lock, outlines_lock, pc, op, bytes,
          new_bytes, extracted, result, overflow_checks, call, ret>>

----------------------------------------------------------------------------
(* Small helpers *)

Min(a, b) == IF a <= b THEN a ELSE b

Max(a, b) == IF a >= b THEN a ELSE b

----------------------------------------------------------------------------
(* Byte buffers, run-length encoded *)

EmptyBuf == << >>

\* the recursions over a buffer halve it, to stay shallow on long buffers
RECURSIVE BLen(_)
BLen(b) ==
    IF b = << >> THEN 0
    ELSE IF Len(b) = 1 THEN b[1][2]
    ELSE BLen(SubSeq(b, 1, Len(b) \div 2))
         + BLen(SubSeq(b, Len(b) \div 2 + 1, Len(b)))

\* Vec::extend with n copies of byte v (Vec::push for n = 1)
BRepeat(b, v, n) ==
    IF n = 0 THEN b
    ELSE IF b # << >> /\ b[Len(b)][1] = v
         THEN [b EXCEPT ![Len(b)] = <<v, b[Len(b)][2] + n>>]
         ELSE Append(b, <<v, n>>)

BPush(b, v) == BRepeat(b, v, 1)

\* Vec::extend_from_slice
BCat(a, b) == IF b = << >> THEN a
              ELSE BRepeat(a, b[1][1], b[1][2]) \o Tail(b)

\* b[i], 0-based; the caller has checked i < len
RECURSIVE BAt(_, _)
RECURSIVE BAtHalf(_, _, _, _)
BAt(b, i) ==
    IF Len(b) = 1 THEN b[1][1]
    ELSE BAtHalf(b, i, Len(b) \div 2, BLen(SubSeq(b, 1, Len(b) \div 2)))

\* h runs of b hold its first n bytes
BAtHalf(b, i, h, n) ==
    IF i < n THEN BAt(SubSeq(b, 1, h), i)
    ELSE BAt(SubSeq(b, h + 1, Len(b)), i - n)

\* &b[lo..hi], 0-based, lo <= hi <= len
RECURSIVE BSlice(_, _, _)
RECURSIVE BSliceHalf(_, _, _, _, _)
BSlice(b, lo, hi) ==
    IF hi <= lo \/ b = << >> THEN << >>
    ELSE IF Len(b) = 1
    THEN (IF Min(hi, b[1][2]) > lo
          THEN << <<b[1][1], Min(hi, b[1][2]) - lo>> >> ELSE << >>)
    ELSE BSliceHalf(b, lo, hi, Len(b) \div 2,
                    BLen(SubSeq(b, 1, Len(b) \div 2)))

BSliceHalf(b, lo, hi, h, n) ==
    IF hi <= n THEN BSlice(SubSeq(b, 1, h), lo, hi)
    ELSE IF lo >= n THEN BSlice(SubSeq(b, h + 1, Len(b)), lo - n, hi - n)
    ELSE BCat(BSlice(SubSeq(b, 1, h), lo, n),
              BSlice(SubSeq(b, h + 1, Len(b)), 0, hi - n))

\* the buffer holding the bytes of a plain sequence
RECURSIVE BFromSeq(_)
BFromSeq(s) == IF s = << >> THEN << >>
               ELSE BCat(<< <<s[1], 1>> >>, BFromSeq(Tail(s)))

\* TRUE when every byte of the buffer is zero
BAllZero(b) == \A k \in 1..Len(b) : b[k][1] = 0

\* to_be_bytes of a u16 / of a u32 below 2^31
U16BE(v) == BFromSeq(<<v \div 256, v % 256>>)

U32BE(v) == BFromSeq(<<v \div 16777216, (v \div 65536) % 256,
                       (v \div 256) % 256, v % 256>>)

\* u16::from_be_bytes / u32::from_be_bytes at byte offset i
ReadU16BE(b, i) == BAt(b, i) * 256 + BAt(b, i + 1)

ReadU32BE(b, i) == BAt(b, i) * 16777216 + BAt(b, i + 1) * 65536
                   + BAt(b, i + 2) * 256 + BAt(b, i + 3)

----------------------------------------------------------------------------
(* Wide unsigned integers as little-endian 16-bit limbs *)

LimbBase == 65536

U32Limbs == 2

UsizeLimbs == 4

\* the n-limb value of a natural below 2^31
RECURSIVE ToLimbs(_, _)
ToLimbs(v, n) == IF n = 0 THEN << >>
                 ELSE <<v % LimbBase>> \o ToLimbs(v \div LimbBase, n - 1)

\* `x as usize` for a u32 x, and `n as usize` for a small n
AsUsize(x) == x \o [i \in 1..(UsizeLimbs - Len(x)) |-> 0]

UsizeOf(v) == ToLimbs(v, UsizeLimbs)

\* TRUE when the value fits the model checker's naturals (below 2^31)
IsSmall(x) == /\ \A i \in 3..Len(x) : x[i] = 0
              /\ (Len(x) >= 2 => x[2] < 32768)

\* the natural a small limb value stands for
ToNat(x) == x[1] + (IF Len(x) >= 2 THEN x[2] * LimbBase ELSE 0)

\* a + b over limbs of equal length: <<carry out, sum limbs>>
RECURSIVE LimbAdd(_, _, _)
LimbAdd(a, b, c) ==
    IF a = << >> THEN <<c, << >> >>
    ELSE LET s == a[1] + b[1] + c
             r == LimbAdd(Tail(a), Tail(b), s \div LimbBase)
         IN <<r[1], <<s % LimbBase>> \o r[2]>>

\* wrapping_add, and whether the exact sum does not fit
WrappingAdd(a, b) == LimbAdd(a, b, 0)[2]

AddOverflows(a, b) == LimbAdd(a, b, 0)[1] # 0

\* a <= b over limbs of equal length
RECURSIVE LimbLe(_, _)
LimbLe(a, b) ==
    IF a = << >> THEN TRUE
    ELSE LET n == Len(a) IN
         IF a[n] # b[n] THEN a[n] < b[n]
         ELSE LimbLe(SubSeq(a, 1, n - 1), SubSeq(b, 1, n - 1))

\* usize::min
LimbMin(a, b) == IF LimbLe(a, b) THEN a ELSE b

----------------------------------------------------------------------------
(* glyf / loca / hmtx rebuild *)

None == [none |-> TRUE]

Some(v) == [some |-> v]

Ok(v) == [ok |-> TRUE, err |-> "", val |-> v]

Err(e) == [ok |-> FALSE, err |-> e, val |-> None]

\* the process aborted (an arithmetic-overflow or capacity panic): no Result at all
Panic(e) == [ok |-> FALSE, err |-> e, val |-> [panic |-> TRUE]]

IsPanic(r) == ~r.ok /\ r.val # None

LocaOverflowLimit == 131070

MaxNumGlyphs == 65535

\* parse_loca_offsets: n_plus_one offsets, 0 for every entry past the end of loca
parse_loca_offsets(loca, n_plus_one, is_long) ==
    [k \in 1..n_plus_one |->
        LET i == k - 1 IN
        IF is_long
        THEN (IF i * 4 + 4 > BLen(loca) THEN 0 ELSE ReadU32BE(loca, i * 4))
        ELSE (IF i * 2 + 2 > BLen(loca) THEN 0 ELSE ReadU16BE(loca, i * 2) * 2)]

\* the padding loop of rebuild_glyf_with_patch: push 0 until len % 4 = 0
PadTo4_Forgotten(g) == g

PadTo4(g) == BRepeat(g, 0, (4 - (BLen(g) % 4)) % 4)

\* the bytes one iteration of the copy loop appends for glyph i
GlyphSlot_KeepsOld(glyf, offsets, glyph_id, new_glyph, i) ==
    IF i < Len(offsets) - 1 /\ offsets[i + 1] < offsets[i + 2]
       /\ offsets[i + 2] <= BLen(glyf)
    THEN BSlice(glyf, offsets[i + 1], offsets[i + 2])
    ELSE IF UsizeOf(i) = glyph_id THEN new_glyph ELSE EmptyBuf

GlyphSlot(glyf, offsets, glyph_id, new_glyph, i) ==
    LET current_num == Max(Len(offsets) - 1, 0) IN
    IF UsizeOf(i) = glyph_id THEN new_glyph
    ELSE IF i < current_num
    THEN LET start == offsets[i + 1]
             end   == offsets[i + 2]
         IN IF start < end /\ end <= BLen(glyf)
            THEN BSlice(glyf, start, end) ELSE EmptyBuf
    ELSE EmptyBuf

\* the copy loop `for i in 0..target_num_glyphs`, from iteration i on
RECURSIVE GlyfScan(_, _, _, _, _, _, _)
GlyfScan(glyf, offsets, glyph_id, new_glyph, target_num_glyphs, i, acc) ==
    IF i >= target_num_glyphs
    THEN [new_glyf |-> acc.new_glyf,
          new_offsets |-> Append(acc.new_offsets, BLen(acc.new_glyf))]
    ELSE GlyfScan(glyf, offsets, glyph_id, new_glyph, target_num_glyphs, i + 1,
            [new_glyf |-> PadTo4(BCat(acc.new_glyf,
                              GlyphSlot(glyf, offsets, glyph_id, new_glyph, i))),
             new_offsets |-> Append(acc.new_offsets, BLen(acc.new_glyf))])

\* the loca encoder of rebuild_glyf_with_patch
RECURSIVE EncodeLoca(_, _, _)
EncodeLoca_NoCheck(new_offsets, is_long, v) ==
    IF new_offsets = << >> THEN Ok(v)
    ELSE LET o == new_offsets[1] IN
         IF is_long THEN EncodeLoca(Tail(new_offsets), is_long, BCat(v, U32BE(o)))
         ELSE EncodeLoca(Tail(new_offsets), is_long,
                         BCat(v, U16BE((o \div 2) % 65536)))

EncodeLoca(new_offsets, is_long, v) ==
    IF new_offsets = << >> THEN Ok(v)
    ELSE LET o == new_offsets[1] IN
         IF is_long THEN EncodeLoca(Tail(new_offsets), is_long, BCat(v, U32BE(o)))
         ELSE IF o > LocaOverflowLimit THEN Err("LocaOverflow")
         ELSE EncodeLoca(Tail(new_offsets), is_long,
                         BCat(v, U16BE((o \div 2) % 65536)))

rebuild_glyf_with_patch(glyf, offsets, glyph_id, new_glyph, is_long, target_num_glyphs) ==
    LET scan == GlyfScan(glyf, offsets, glyph_id, new_glyph, target_num_glyphs, 0,
                         [new_glyf |-> EmptyBuf, new_offsets |-> << >>])
        new_loca == EncodeLoca(scan.new_offsets, is_long, EmptyBuf)
    IN IF new_loca.ok
       THEN Ok([new_glyf |-> scan.new_glyf, new_loca |-> new_loca.val])
       ELSE new_loca

\* extend_hmtx; checked is TRUE in a build with overflow checks.  The capacity
\* hmtx_data.len() + (target - current) * 2 is computed first: with target below
\* current the subtraction panics when checked and wraps otherwise, and the wrapped
\* capacity is a valid one only when it wraps back below the length.
extend_hmtx_FullMetric(hmtx_data, current_num_glyphs, target_num_glyphs, checked) ==
    Ok(BRepeat(hmtx_data, 0, 4 * Max(target_num_glyphs - current_num_glyphs, 0)))

extend_hmtx(hmtx_data, current_num_glyphs, target_num_glyphs, checked) ==
    IF target_num_glyphs < current_num_glyphs /\ checked
    THEN Panic("attempt to subtract with overflow")
    ELSE IF target_num_glyphs < current_num_glyphs
            /\ BLen(hmtx_data) < 2 * (current_num_glyphs - target_num_glyphs)
    THEN Panic("capacity overflow")
    ELSE Ok(BRepeat(hmtx_data, 0,
                    2 * Max(target_num_glyphs - current_num_glyphs, 0)))

\* save_glyph_outline, "Determine if we're adding a new glyph": glyph_id is the
\* u32 argument, num_glyphs the font's maxp.numGlyphs.  glyph_id + 1 is a u32
\* addition: it panics in a build with overflow checks and wraps in one without.
U32One == <<1, 0>>

LimbLt(a, b) == ~LimbLe(b, a)

is_new_glyph(glyph_id, num_glyphs) == ~LimbLt(AsUsize(glyph_id), UsizeOf(num_glyphs))

target_num_glyphs_Widened(glyph_id, num_glyphs, checked) ==
    IF is_new_glyph(glyph_id, num_glyphs)
    THEN Ok(WrappingAdd(AsUsize(glyph_id), AsUsize(U32One)))
    ELSE Ok(UsizeOf(num_glyphs))

target_num_glyphs(glyph_id, num_glyphs, checked) ==
    IF is_new_glyph(glyph_id, num_glyphs)
    THEN IF AddOverflows(glyph_id, U32One) /\ checked
         THEN Panic("attempt to add with overflow")
         ELSE Ok(AsUsize(WrappingAdd(glyph_id, U32One)))
    ELSE Ok(UsizeOf(num_glyphs))

\* `if target_num_glyphs > 65535`
exceeds_max_glyphs(target) == LimbLt(UsizeOf(MaxNumGlyphs), target)

----------------------------------------------------------------------------
(* Binary outline codec and paging.  A GlyphOutline is                     *)
(*   [glyph_id, glyph_name (None or Some of its UTF-8 bytes), svg_path (its *)
(*    bytes), advance_width (the four little-endian bytes of the f32),      *)
(*    bounds (None, or Some of the sixteen bytes of its four f32)]          *)

U16LE(v) == BFromSeq(<<v % 256, v \div 256>>)

U32LE(v) == BFromSeq(<<v % 256, (v \div 256) % 256, (v \div 65536) % 256,
                       v \div 16777216>>)

encode_glyph(glyph) ==
    LET name_bytes == IF glyph.glyph_name = None THEN EmptyBuf
                      ELSE glyph.glyph_name.some
        head == BCat(U32LE(glyph.glyph_id), glyph.advance_width)
        withb == IF glyph.bounds # None
                 THEN BCat(BPush(head, 1), glyph.bounds.some)
                 ELSE BPush(head, 0)
        withn == BCat(BCat(withb, U16LE(BLen(name_bytes) % 65536)), name_bytes)
    IN BCat(BCat(withn, U32LE(BLen(glyph.svg_path))), glyph.svg_path)

\* for glyph in outlines { ... }, from the k-th outline of the page on
RECURSIVE encode_glyphs(_, _, _)
encode_glyphs(buf, page, k) ==
    IF k > Len(page) THEN buf
    ELSE encode_glyphs(BCat(buf, encode_glyph(page[k])), page, k + 1)

encode_glyph_outlines_binary(page, total_glyphs, units_per_em) ==
    encode_glyphs(BCat(BCat(U32LE(total_glyphs), U32LE(Len(page))),
                       U16LE(units_per_em)),
                  page, 1)

\* (offset as usize) + (limit as usize): a usize addition
page_end_U32Add(offset, limit, checked) ==
    Ok(AsUsize(WrappingAdd(offset, limit)))

page_end(offset, limit, checked) ==
    IF AddOverflows(AsUsize(offset), AsUsize(limit)) /\ checked
    THEN Panic("attempt to add with overflow")
    ELSE Ok(WrappingAdd(AsUsize(offset), AsUsize(limit)))

\* get_glyph_outlines_binary, "Serve the requested page from cache": cached is
\* the CachedOutlines found under the outlines lock; offset and limit are u32
serve_page(cached, offset, limit, checked) ==
    LET total_outlines == UsizeOf(Len(cached.outlines))
        start == LimbMin(AsUsize(offset), total_outlines)
        sum == page_end(offset, limit, checked)
    IN IF ~sum.ok THEN sum
       ELSE LET end == LimbMin(sum.val, total_outlines) IN
            IF LimbLt(end, start)
            THEN Panic("slice index starts after it ends")
            ELSE Ok(encode_glyph_outlines_binary(
                        SubSeq(cached.outlines, ToNat(start) + 1, ToNat(end)),
                        cached.num_glyphs, cached.units_per_em))

----------------------------------------------------------------------------
(* f32 values: the decimal numbers of a path and the offsets of a component *)
(* are kept exactly, as a fraction n / d with d a power of ten.             *)

F32(n, d) == [n |-> n, d |-> d]

F32Neg(x) == [n |-> 0 - x.n, d |-> x.d]

Abs(v) == IF v < 0 THEN 0 - v ELSE v

\* `as` of a float, which drops the fraction
F32Round_Truncating(x) ==
    IF x.n < 0 THEN 0 - (Abs(x.n) \div x.d) ELSE x.n \div x.d

\* f32::round: to the nearest integer, halves away from zero
F32Round(x) ==
    LET m == (2 * Abs(x.n) + x.d) \div (2 * x.d)
    IN IF x.n < 0 THEN 0 - m ELSE m

\* `as i16` and `as i8` of a float: saturating
AsI16(v) == Max(-32768, Min(32767, v))

AsI8(v) == Max(-128, Min(127, v))

\* to_be_bytes of an i16, and `as u8` of an i8
I16BE(v) == U16BE((v + 65536) % 65536)

I8AsU8(v) == (v + 256) % 256

\* i16::from_be_bytes at byte offset i, and `as i8` of a byte
ReadI16BE(b, i) ==
    LET u == ReadU16BE(b, i) IN IF u >= 32768 THEN u - 65536 ELSE u

U8AsI8(u) == IF u >= 128 THEN u - 256 ELSE u

----------------------------------------------------------------------------
(* The path language: a path is a sequence of characters, a token a        *)
(* non-empty sequence of characters.                                       *)

CmdLetters == {"M", "m", "L", "l", "Q", "q", "C", "c", "Z", "z"}

DigitChars == <<"0", "1", "2", "3", "4", "5", "6", "7", "8", "9">>

Digits == { DigitChars[k] : k \in 1..10 }

DigitVal(c) == (CHOOSE k \in 1..10 : DigitChars[k] = c) - 1

\* the inner `while let Some(&d) = chars.peek()` loops of tokenize_svg_path:
\* s is the string built so far, an exponent letter is taken when s is longer
\* than min_len (0 in the digit arm, 1 in the sign arm)
RECURSIVE scan_number(_, _, _, _)
scan_number(path, i, s, min_len) ==
    IF i > Len(path) THEN [s |-> s, pos |-> i]
    ELSE LET d == path[i] IN
         IF d \in Digits \/ d = "."
         THEN scan_number(path, i + 1, Append(s, d), min_len)
         ELSE IF d \in {"e", "E"} /\ Len(s) > min_len
         THEN IF i + 1 <= Len(path) /\ path[i + 1] \in {"+", "-"}
              THEN scan_number(path, i + 2, s \o <<d, path[i + 1]>>, min_len)
              ELSE scan_number(path, i + 1, Append(s, d), min_len)
         ELSE [s |-> s, pos |-> i]

RECURSIVE tokenize_from(_, _, _)
\* the tokeniser with its sign arm pushing whatever it has built
tokenize_from_KeepsBareSign(path, i, tokens) ==
    IF i <= Len(path) /\ path[i] \in {"-", "+"}
    THEN LET r == scan_number(path, i + 1, <<path[i]>>, 1)
         IN tokenize_from(path, r.pos, Append(tokens, r.s))
    ELSE IF i > Len(path) THEN tokens
    ELSE LET c == path[i] IN
         IF c \in CmdLetters
         THEN tokenize_from(path, i + 1, Append(tokens, <<c>>))
         ELSE IF c \in Digits \/ c = "."
         THEN LET r == scan_number(path, i, << >>, 0)
              IN tokenize_from(path, r.pos,
                     IF r.s # << >> THEN Append(tokens, r.s) ELSE tokens)
         ELSE tokenize_from(path, i + 1, tokens)

tokenize_from(path, i, tokens) ==
    IF i > Len(path) THEN tokens
    ELSE LET c == path[i] IN
         IF c \in CmdLetters
         THEN tokenize_from(path, i + 1, Append(tokens, <<c>>))
         ELSE IF c \in Digits \/ c = "."
         THEN LET r == scan_number(path, i, << >>, 0)
              IN tokenize_from(path, r.pos,
                     IF r.s # << >> THEN Append(tokens, r.s) ELSE tokens)
         ELSE IF c \in {"-", "+"}
         THEN LET r == scan_number(path, i + 1, <<c>>, 1)
              IN tokenize_from(path, r.pos,
                     IF Len(r.s) > 1 THEN Append(tokens, r.s) ELSE tokens)
         ELSE tokenize_from(path, i + 1, tokens)

tokenize_svg_path(path) == tokenize_from(path, 1, << >>)

\* str::parse::<f32> on a token: [sign] digits [. digits] [e [sign] digits],
\* with at least one digit in the mantissa and in a present exponent
RECURSIVE DigitsVal(_, _)
DigitsVal(ds, acc) ==
    IF ds = << >> THEN acc ELSE DigitsVal(Tail(ds), 10 * acc + DigitVal(ds[1]))

RECURSIVE Pow10(_)
Pow10(k) == IF k = 0 THEN 1 ELSE 10 * Pow10(k - 1)

AllDigits(ds) == \A k \in 1..Len(ds) : ds[k] \in Digits

Positions(t, cs) == { k \in 1..Len(t) : t[k] \in cs }

Lowest(S) == CHOOSE k \in S : \A j \in S : k <= j

parse_f32(tok) ==
    LET signed == tok # << >> /\ tok[1] \in {"+", "-"}
        body == IF signed THEN Tail(tok) ELSE tok
        es == Positions(body, {"e", "E"})
        mant == IF es = {} THEN body ELSE SubSeq(body, 1, Lowest(es) - 1)
        expo == IF es = {} THEN << >>
                ELSE SubSeq(body, Lowest(es) + 1, Len(body))
        dots == Positions(mant, {"."})
        int == IF dots = {} THEN mant ELSE SubSeq(mant, 1, Lowest(dots) - 1)
        frac == IF dots = {} THEN << >>
                ELSE SubSeq(mant, Lowest(dots) + 1, Len(mant))
        esigned == expo # << >> /\ expo[1] \in {"+", "-"}
        edigits == IF esigned THEN Tail(expo) ELSE expo
        valid == /\ AllDigits(int) /\ AllDigits(frac)
                 /\ Len(int) + Len(frac) >= 1
                 /\ (es # {} => (edigits # << >> /\ AllDigits(edigits)))
    IN IF ~valid THEN Err("BadPath")
       ELSE LET N == DigitsVal(int \o frac, 0)
                E == IF esigned /\ expo[1] = "-" THEN 0 - DigitsVal(edigits, 0)
                     ELSE DigitsVal(edigits, 0)
                e == E - Len(frac)
                v == IF e >= 0 THEN F32(N * Pow10(e), 1) ELSE F32(N, Pow10(0 - e))
            IN Ok(IF signed /\ tok[1] = "-" THEN F32Neg(v) ELSE v)

RECURSIVE next_fs(_, _, _, _)
\* the closure next_f giving 0 where the tokens have run out
next_fs_ZeroPastEnd(tokens, i, k, acc) ==
    IF k = 0 THEN Ok(acc)
    ELSE IF i > Len(tokens) THEN Ok(acc \o [j \in 1..k |-> F32(0, 1)])
    ELSE LET f == parse_f32(tokens[i]) IN
         IF ~f.ok THEN f ELSE next_fs(tokens, i + 1, k - 1, Append(acc, f.val))

\* k calls of the closure next_f from token i on: the numbers read, or the
\* first error ("unexpected end of path" or "bad number")
next_fs(tokens, i, k, acc) ==
    IF k = 0 THEN Ok(acc)
    ELSE IF i > Len(tokens) THEN Err("BadPath")
    ELSE LET f == parse_f32(tokens[i]) IN
         IF ~f.ok THEN f ELSE next_fs(tokens, i + 1, k - 1, Append(acc, f.val))

\* the SvgCmd with the numbers as they were read
SvgCmd_KeepsY(letter, a) ==
    IF letter \in {"M", "m"} THEN [cmd |-> "MoveTo", args |-> <<a[1], a[2]>>]
    ELSE IF letter \in {"L", "l"} THEN [cmd |-> "LineTo", args |-> <<a[1], a[2]>>]
    ELSE IF letter \in {"Q", "q"} THEN [cmd |-> "QuadTo", args |-> a]
    ELSE IF letter \in {"C", "c"} THEN [cmd |-> "CurveTo", args |-> a]
    ELSE [cmd |-> "Close", args |-> << >>]

\* the SvgCmd a command letter and its numbers make: every Y is negated
SvgCmd(letter, a) ==
    IF letter \in {"M", "m"} THEN [cmd |-> "MoveTo", args |-> <<a[1], F32Neg(a[2])>>]
    ELSE IF letter \in {"L", "l"}
    THEN [cmd |-> "LineTo", args |-> <<a[1], F32Neg(a[2])>>]
    ELSE IF letter \in {"Q", "q"}
    THEN [cmd |-> "QuadTo",
          args |-> <<a[1], F32Neg(a[2]), a[3], F32Neg(a[4])>>]
    ELSE IF letter \in {"C", "c"}
    THEN [cmd |-> "CurveTo",
          args |-> <<a[1], F32Neg(a[2]), a[3], F32Neg(a[4]), a[5], F32Neg(a[6])>>]
    ELSE [cmd |-> "Close", args |-> << >>]

NumArgs(letter) ==
    IF letter \in {"M", "m", "L", "l"} THEN 2
    ELSE IF letter \in {"Q", "q"} THEN 4
    ELSE IF letter \in {"C", "c"} THEN 6 ELSE 0

RECURSIVE parse_cmds_from(_, _, _)
parse_cmds_from(tokens, i, cmds) ==
    IF i > Len(tokens) THEN Ok(cmds)
    ELSE LET t == tokens[i] IN
         IF Len(t) = 1 /\ t[1] \in CmdLetters
         THEN LET a == next_fs(tokens, i + 1, NumArgs(t[1]), << >>) IN
              IF ~a.ok THEN a
              ELSE parse_cmds_from(tokens, i + 1 + NumArgs(t[1]),
                                   Append(cmds, SvgCmd(t[1], a.val)))
         ELSE parse_cmds_from(tokens, i + 1, cmds)

parse_svg_path_cmds(path) == parse_cmds_from(tokenize_svg_path(path), 1, << >>)

----------------------------------------------------------------------------
(* The SimpleGlyph encoder.  A point is <<x, y, on_curve>>.                *)

Pt(x, y, on) == <<AsI16(F32Round(x)), AsI16(F32Round(y)), on>>

\* the first loop of build_glyf_glyph_bytes, from command k on; st holds the
\* finished contours and the current one
RECURSIVE collect_contours(_, _, _)
\* the loop with a cubic drawn as a line to its end point
collect_contours_CubicAsLine(cmds, k, st) ==
    IF k > Len(cmds) THEN Ok(st)
    ELSE LET c == cmds[k]
             flushed == IF st.cur # << >>
                        THEN [contours |-> Append(st.contours, st.cur),
                              cur |-> << >>]
                        ELSE st
         IN collect_contours(cmds, k + 1,
                   IF c.cmd = "MoveTo"
                   THEN [flushed EXCEPT
                            !.cur = <<Pt(c.args[1], c.args[2], TRUE)>>]
                   ELSE IF c.cmd = "LineTo"
                   THEN [st EXCEPT
                            !.cur = Append(@, Pt(c.args[1], c.args[2], TRUE))]
                   ELSE IF c.cmd = "QuadTo"
                   THEN [st EXCEPT
                            !.cur = @ \o <<Pt(c.args[1], c.args[2], FALSE),
                                           Pt(c.args[3], c.args[4], TRUE)>>]
                   ELSE IF c.cmd = "CurveTo"
                   THEN [st EXCEPT
                            !.cur = Append(@, Pt(c.args[5], c.args[6], TRUE))]
                   ELSE flushed)

collect_contours(cmds, k, st) ==
    IF k > Len(cmds) THEN Ok(st)
    ELSE LET c == cmds[k]
             flushed == IF st.cur # << >>
                        THEN [contours |-> Append(st.contours, st.cur),
                              cur |-> << >>]
                        ELSE st
         IN IF c.cmd = "CurveTo" THEN Err("CubicInGlyfTable")
            ELSE collect_contours(cmds, k + 1,
                   IF c.cmd = "MoveTo"
                   THEN [flushed EXCEPT
                            !.cur = <<Pt(c.args[1], c.args[2], TRUE)>>]
                   ELSE IF c.cmd = "LineTo"
                   THEN [st EXCEPT
                            !.cur = Append(@, Pt(c.args[1], c.args[2], TRUE))]
                   ELSE IF c.cmd = "QuadTo"
                   THEN [st EXCEPT
                            !.cur = @ \o <<Pt(c.args[1], c.args[2], FALSE),
                                           Pt(c.args[3], c.args[4], TRUE)>>]
                   ELSE flushed)

RECURSIVE Flatten(_)
Flatten(contours) ==
    IF contours = << >> THEN << >> ELSE contours[1] \o Flatten(Tail(contours))

\* end_pts.push((pts.len() - 1) as u16) after each contour
EndPts(contours) ==
    [k \in 1..Len(contours) |->
        (Len(Flatten(SubSeq(contours, 1, k))) - 1) % 65536]

MinOf(S) == CHOOSE v \in S : \A w \in S : v <= w

MaxOf(S) == CHOOSE v \in S : \A w \in S : v >= w

RECURSIVE U16Seq(_, _)
U16Seq(vals, buf) ==
    IF vals = << >> THEN buf ELSE U16Seq(Tail(vals), BCat(buf, U16BE(vals[1])))

RECURSIVE FlagBytes(_, _)
FlagBytes(pts, buf) ==
    IF pts = << >> THEN buf
    ELSE FlagBytes(Tail(pts), BPush(buf, IF pts[1][3] THEN 1 ELSE 0))

InI16(v) == -32768 <= v /\ v <= 32767

WrapI16(v) == ((v + 32768) % 65536) - 32768

\* the delta loops: `d = x - prev` is an i16 subtraction
RECURSIVE Deltas(_, _, _, _, _)
Deltas(pts, axis, prev, buf, checked) ==
    IF pts = << >> THEN Ok(buf)
    ELSE LET d == pts[1][axis] - prev IN
         IF ~InI16(d) /\ checked THEN Panic("attempt to subtract with overflow")
         ELSE Deltas(Tail(pts), axis, pts[1][axis],
                     BCat(buf, I16BE(WrapI16(d))), checked)

build_glyf_glyph_bytes(cmds, checked) ==
    LET got == collect_contours(cmds, 1, [contours |-> << >>, cur |-> << >>])
    IN IF ~got.ok THEN got
       ELSE LET contours == IF got.val.cur # << >>
                            THEN Append(got.val.contours, got.val.cur)
                            ELSE got.val.contours
            IN IF contours = << >> THEN Ok(EmptyBuf)
               ELSE LET pts == Flatten(contours)
                        xs == { pts[k][1] : k \in 1..Len(pts) }
                        ys == { pts[k][2] : k \in 1..Len(pts) }
                        header == U16Seq(<<Len(contours) % 65536>>, EmptyBuf)
                        bbox == BCat(BCat(I16BE(MinOf(xs)), I16BE(MinOf(ys))),
                                     BCat(I16BE(MaxOf(xs)), I16BE(MaxOf(ys))))
                        ends == U16Seq(EndPts(contours), BCat(header, bbox))
                        flags == FlagBytes(pts, BCat(ends, U16BE(0)))
                        dx == Deltas(pts, 1, 0, flags, checked)
                    IN IF ~dx.ok THEN dx
                       ELSE Deltas(pts, 2, 0, dx.val, checked)

----------------------------------------------------------------------------
(* The composite patch.  An update is [x_offset, y_offset], two f32.       *)

MORE_COMPONENTS == 32

ARG_1_AND_2_ARE_WORDS == 1

ARGS_ARE_XY_VALUES == 2

WE_HAVE_A_SCALE == 8

WE_HAVE_AN_X_AND_Y_SCALE == 64

WE_HAVE_A_TWO_BY_TWO == 128

\* flags & bit != 0, flags | bit, flags & !bit, for a single-bit mask
HasBit(flags, bit) == (flags \div bit) % 2 = 1

\* flags + bit in place of flags | bit
SetBit_Adding(flags, bit) == flags + bit

SetBit(flags, bit) == IF HasBit(flags, bit) THEN flags ELSE flags + bit

ClearBit(flags, bit) == IF HasBit(flags, bit) THEN flags - bit ELSE flags

\* the range test made on the rounded value
OutsideByte_Rounded(v) == F32Round(v) < -128 \/ F32Round(v) > 127

\* !(-128.0..=127.0).contains(&v)
OutsideByte(v) == v.n < -128 * v.d \/ v.n > 127 * v.d

\* the loop of patch_composite_glyph_offsets, from the component at pos on
RECURSIVE patch_components(_, _, _, _, _)
patch_components(glyph_data, updates, pos, comp_index, output) ==
    LET len == BLen(glyph_data) IN
    IF pos + 4 > len THEN Ok(output)
    ELSE
    LET flags == ReadU16BE(glyph_data, pos)
        component_glyph_id == ReadU16BE(glyph_data, pos + 2)
        words == HasBit(flags, ARG_1_AND_2_ARE_WORDS)
        args_end == pos + 4 + (IF words THEN 4 ELSE 2)
    IN IF args_end > len THEN Err("MalformedComposite")
       ELSE
       LET arg1 == IF words THEN ReadI16BE(glyph_data, pos + 4)
                   ELSE U8AsI8(BAt(glyph_data, pos + 4))
           arg2 == IF words THEN ReadI16BE(glyph_data, pos + 6)
                   ELSE U8AsI8(BAt(glyph_data, pos + 5))
           xy == HasBit(flags, ARGS_ARE_XY_VALUES)
           cur_x == IF xy THEN F32(arg1, 1) ELSE F32(0, 1)
           cur_y == IF xy THEN F32(arg2, 1) ELSE F32(0, 1)
           new_x == IF comp_index < Len(updates)
                    THEN updates[comp_index + 1].x_offset ELSE cur_x
           new_y == IF comp_index < Len(updates)
                    THEN updates[comp_index + 1].y_offset ELSE cur_y
           needs_words == OutsideByte(new_x) \/ OutsideByte(new_y)
           new_flags == IF needs_words
                        THEN SetBit(SetBit(flags, ARGS_ARE_XY_VALUES),
                                    ARG_1_AND_2_ARE_WORDS)
                        ELSE ClearBit(SetBit(flags, ARGS_ARE_XY_VALUES),
                                      ARG_1_AND_2_ARE_WORDS)
           head == BCat(BCat(output, U16BE(new_flags)),
                        U16BE(component_glyph_id))
           with_args == IF needs_words
                        THEN BCat(BCat(head, I16BE(AsI16(F32Round(new_x)))),
                                  I16BE(AsI16(F32Round(new_y))))
                        ELSE BPush(BPush(head, I8AsU8(AsI8(F32Round(new_x)))),
                                   I8AsU8(AsI8(F32Round(new_y))))
           transform_end == args_end +
                (IF HasBit(flags, WE_HAVE_A_TWO_BY_TWO) THEN 8
                 ELSE IF HasBit(flags, WE_HAVE_AN_X_AND_Y_SCALE) THEN 4
                 ELSE IF HasBit(flags, WE_HAVE_A_SCALE) THEN 2 ELSE 0)
       IN IF transform_end > len
          THEN Panic("range end index out of range for slice")
          ELSE LET out == BCat(with_args,
                               BSlice(glyph_data, args_end, transform_end))
               IN IF HasBit(flags, MORE_COMPONENTS)
                  THEN patch_components(glyph_data, updates, transform_end,
                                        comp_index + 1, out)
                  ELSE Ok(BCat(out, BSlice(glyph_data, transform_end, len)))

\* the patch without its copy of the glyph header
patch_composite_glyph_offsets_NoHeader(glyph_data, updates) ==
    IF BLen(glyph_data) < 10 THEN Err("CompositeTooShort")
    ELSE patch_components(glyph_data, updates, 10, 0, EmptyBuf)

patch_composite_glyph_offsets(glyph_data, updates) ==
    IF BLen(glyph_data) < 10 THEN Err("CompositeTooShort")
    ELSE patch_components(glyph_data, updates, 10, 0,
                          BSlice(glyph_data, 0, 10))

----------------------------------------------------------------------------
(* Font files.  The bytes of a file are one of                             *)
(*   EmptyBytes            the empty buffer                                *)
(*   Garbage               bytes RawFontRef::new rejects                   *)
(*   a font                [kind |-> "font", tables |-> tag :> table]      *)
(* and a file that cannot be read is NoFile.  The tables the operations    *)
(* decode are records of their fields (name: a sequence of records); loca, *)
(* glyf and hmtx are byte buffers.                                         *)

EmptyBytes == [kind |-> "empty"]

Garbage == [kind |-> "garbage"]

NoFile == [kind |-> "missing"]

\* fs::read(path).unwrap_or_default()
fs_read_or_default(file) == IF file = NoFile THEN EmptyBytes ELSE file

\* `if bytes.is_empty()` followed by RawFontRef::new(&bytes)
read_font(b) ==
    IF b = EmptyBytes THEN Err("IoError")
    ELSE IF b.kind # "font" THEN Err("MalformedFont")
    ELSE Ok(b)

HasTable(font, tag) == tag \in DOMAIN font.tables

\* FontBuilder::new().add_table/add_raw(added)...copy_missing_tables(font).build()
FontBuilder(added, font) ==
    [kind |-> "font",
     tables |-> [tag \in (DOMAIN added) \cup (DOMAIN font.tables) |->
                    IF tag \in DOMAIN added THEN added[tag]
                    ELSE font.tables[tag]]]

\* a table with the fields named in updates replaced
Patched(table, updates) ==
    [f \in DOMAIN table |-> IF f \in DOMAIN updates THEN updates[f] ELSE table[f]]

\* the new bytes update_head_table writes, or its error
update_head_table(b, updates) ==
    LET font == read_font(b) IN
    IF ~font.ok THEN font
    ELSE IF ~HasTable(font.val, "head") THEN Err("TableMissing")
    ELSE Ok(FontBuilder([t \in {"head"} |->
                            Patched(font.val.tables["head"], updates)],
                        font.val))

update_hhea_table(b, updates) ==
    LET font == read_font(b) IN
    IF ~font.ok THEN font
    ELSE IF ~HasTable(font.val, "hhea") THEN Err("TableMissing")
    ELSE Ok(FontBuilder([t \in {"hhea"} |->
                            Patched(font.val.tables["hhea"], updates)],
                        font.val))

update_maxp_table(b, updates) ==
    LET font == read_font(b) IN
    IF ~font.ok THEN font
    ELSE IF ~HasTable(font.val, "maxp") THEN Err("TableMissing")
    ELSE Ok(FontBuilder([t \in {"maxp"} |->
                            [font.val.tables["maxp"] EXCEPT
                                !.num_glyphs = updates.num_glyphs]],
                        font.val))

\* a match on the name id alone
NameMatches_AnyPlatform(record, updates) == record.name_id = updates.name_id

NameMatches(record, updates) ==
    record.name_id = updates.name_id /\ record.platform_id = updates.platform_id

\* a record whose string lies outside the table's string data:
\* record.string(..) is an Err for it
UnreadableString == "<unreadable>"

\* record.string(..).map(|s| s.chars().collect::<String>()).unwrap_or_default()
existing_string(record) ==
    IF record.string = UnreadableString THEN "" ELSE record.string

\* the order of name records in a compiled table: by platform, encoding,
\* language and name id
NameRecordLe(a, b) ==
    \/ a.platform_id < b.platform_id
    \/ /\ a.platform_id = b.platform_id
       /\ \/ a.encoding_id < b.encoding_id
          \/ /\ a.encoding_id = b.encoding_id
             /\ \/ a.language_id < b.language_id
                \/ /\ a.language_id = b.language_id
                   /\ a.name_id <= b.name_id

RECURSIVE InsertNameRecord(_, _)
InsertNameRecord(record, sorted) ==
    IF sorted = << >> THEN <<record>>
    ELSE IF NameRecordLe(sorted[Len(sorted)], record)
         THEN Append(sorted, record)
         ELSE Append(InsertNameRecord(record,
                                      SubSeq(sorted, 1, Len(sorted) - 1)),
                     sorted[Len(sorted)])

RECURSIVE SortNameRecords(_, _, _)
SortNameRecords(records, k, sorted) ==
    IF k > Len(records) THEN sorted
    ELSE SortNameRecords(records, k + 1, InsertNameRecord(records[k], sorted))

\* Name::new(new_records), compiled: write_fonts either keeps the records
\* in the order given or puts them in the standard order
Name_new(new_records, sorts_records) ==
    IF sorts_records THEN SortNameRecords(new_records, 1, << >>)
    ELSE new_records

\* the loop over the name records: a record for each, in order
RECURSIVE new_name_records(_, _, _, _)
new_name_records(name_table, updates, k, new_records) ==
    IF k > Len(name_table) THEN new_records
    ELSE new_name_records(name_table, updates, k + 1,
            Append(new_records,
               [platform_id |-> name_table[k].platform_id,
                encoding_id |-> name_table[k].encoding_id,
                language_id |-> name_table[k].language_id,
                name_id |-> name_table[k].name_id,
                string |-> IF NameMatches(name_table[k], updates)
                           THEN updates.value
                           ELSE existing_string(name_table[k])]))

update_name_table_built(b, updates, sorts_records) ==
    LET font == read_font(b) IN
    IF ~font.ok THEN font
    ELSE IF ~HasTable(font.val, "name") THEN Err("TableMissing")
    ELSE LET name_table == font.val.tables["name"]
             found == \E k \in 1..Len(name_table) :
                          NameMatches(name_table[k], updates)
         IN IF ~found THEN Err("NoMatchingNameRecord")
            ELSE Ok(FontBuilder(
                       [t \in {"name"} |->
                          Name_new(new_name_records(name_table, updates, 1,
                                                    << >>),
                                   sorts_records)],
                       font.val))

\* on a table in the standard order the two builds are the same
update_name_table(b, updates) == update_name_table_built(b, updates, TRUE)

\* the tables update_composite_offsets and save_glyph_outline read first:
\* head, maxp, loca and glyf, in the order the code asks for them
GlyfTablesPresent(font) ==
    /\ HasTable(font, "head") /\ HasTable(font, "maxp")
    /\ HasTable(font, "loca") /\ HasTable(font, "glyf")

IsLong(font) == font.tables["head"].index_to_loc_format # 0

NumGlyphs(font) == font.tables["maxp"].num_glyphs

FontOffsets(font) ==
    parse_loca_offsets(font.tables["loca"], NumGlyphs(font) + 1, IsLong(font))

\* composite_glyph_id is the u32 argument
update_composite_offsets(b, composite_glyph_id, components) ==
    LET font == read_font(b) IN
    IF ~font.ok THEN font
    ELSE IF ~GlyfTablesPresent(font.val) THEN Err("TableMissing")
    ELSE
    LET num_glyphs == NumGlyphs(font.val)
        glyf == font.val.tables["glyf"]
        offsets == FontOffsets(font.val)
        glyph_id == AsUsize(composite_glyph_id)
    IN IF ~LimbLt(glyph_id, UsizeOf(num_glyphs)) THEN Err("GlyphOutOfRange")
       ELSE
       LET start == offsets[ToNat(glyph_id) + 1]
           end == IF ToNat(glyph_id) + 1 < Len(offsets)
                  THEN offsets[ToNat(glyph_id) + 2] ELSE BLen(glyf)
       IN IF start >= end \/ end > BLen(glyf) THEN Err("GlyphNotFound")
          ELSE
          LET new_glyph_bytes ==
                  patch_composite_glyph_offsets(BSlice(glyf, start, end),
                                                components)
          IN IF ~new_glyph_bytes.ok THEN new_glyph_bytes
             ELSE
             LET rebuilt == rebuild_glyf_with_patch(glyf, offsets, glyph_id,
                                new_glyph_bytes.val, IsLong(font.val),
                                num_glyphs)
             IN IF ~rebuilt.ok THEN rebuilt
                ELSE Ok(FontBuilder(
                        [t \in {"glyf", "loca"} |->
                            IF t = "glyf" THEN rebuilt.val.new_glyf
                            ELSE rebuilt.val.new_loca],
                        font.val))

\* glyph_metrics.advance_width(gid) of an unscaled font: None past the glyph
\* count or without a readable hmtx, else the advance of the glyph's long
\* metric, or of the last long metric for the glyphs after them
advance_width(font, gid) ==
    IF ~HasTable(font, "maxp") \/ gid >= NumGlyphs(font)
       \/ ~HasTable(font, "hhea") \/ ~HasTable(font, "hmtx")
    THEN None
    ELSE LET n == font.tables["hhea"].number_of_h_metrics
             hmtx == font.tables["hmtx"]
         IN IF n = 0 \/ BLen(hmtx) < 4 * n THEN None
            ELSE Some(ReadU16BE(hmtx, 4 * Min(gid, n - 1)))

calculate_x_avg_char_width(font, num_glyphs) ==
    LET known == { gid \in 0..(num_glyphs - 1) :
                     advance_width(font, gid) # None }
        widths == [gid \in known |-> advance_width(font, gid).some]
        RECURSIVE Sum(_)
        Sum(S) == IF S = {} THEN 0
                  ELSE LET g == CHOOSE g \in S : TRUE
                       IN widths[g] + Sum(S \ {g})
        total_width == Sum(known)
        count == Cardinality(known)
    IN IF count > 0 THEN WrapI16(total_width \div count) ELSE 0

\* str::trim
Whitespace == {" ", "\t", "\n", "\r"}

RECURSIVE TrimStart(_)
TrimStart(s) == IF s # << >> /\ s[1] \in Whitespace THEN TrimStart(Tail(s)) ELSE s

RECURSIVE TrimEnd(_)
TrimEnd(s) == IF s # << >> /\ s[Len(s)] \in Whitespace
              THEN TrimEnd(SubSeq(s, 1, Len(s) - 1)) ELSE s

trim(s) == TrimEnd(TrimStart(s))

\* the first check of save_glyph_outline, made before the font is read
unsupported_table(table_name) == trim(table_name) # <<"g", "l", "y", "f">>

\* save_glyph_outline, in the order of its statements; each stage is handed
\* what the stages before it computed.  args is [glyph_id (u32), svg_path,
\* table_name]; the result is the final bytes to write, or the error or panic.

\* "Recalculate OS/2 xAvgCharWidth after font rebuild"
save_final_bytes(is_new, target_n, intermediate_bytes) ==
    IF is_new /\ HasTable(intermediate_bytes, "OS/2")
    THEN Ok(FontBuilder(
            [t \in {"OS/2"} |->
                [intermediate_bytes.tables["OS/2"] EXCEPT
                    !.x_avg_char_width =
                        calculate_x_avg_char_width(intermediate_bytes,
                                                   target_n % 65536)]],
            intermediate_bytes))
    ELSE Ok(intermediate_bytes)

\* "Build intermediate font with updated tables"
save_intermediate_bytes(font, is_new, target_n, rebuilt, new_hmtx) ==
    IF is_new
    THEN FontBuilder([t \in {"glyf", "loca", "hmtx", "maxp"} |->
                         IF t = "glyf" THEN rebuilt.new_glyf
                         ELSE IF t = "loca" THEN rebuilt.new_loca
                         ELSE IF t = "hmtx" THEN new_hmtx
                         ELSE [font.tables["maxp"] EXCEPT
                                  !.num_glyphs = target_n % 65536]],
                     font)
    ELSE FontBuilder([t \in {"glyf", "loca", "hmtx"} |->
                         IF t = "glyf" THEN rebuilt.new_glyf
                         ELSE IF t = "loca" THEN rebuilt.new_loca
                         ELSE new_hmtx],
                     font)

save_with_hmtx(font, is_new, target_n, rebuilt, new_hmtx) ==
    IF ~new_hmtx.ok THEN new_hmtx
    ELSE save_final_bytes(is_new, target_n,
            save_intermediate_bytes(font, is_new, target_n, rebuilt,
                                    new_hmtx.val))

\* "Get hhea ..." and "Extend hmtx if adding new glyphs"
save_rebuilt(font, is_new, target_n, rebuilt, checked) ==
    IF ~rebuilt.ok THEN rebuilt
    ELSE IF ~HasTable(font, "hhea") THEN Err("TableMissing")
    ELSE IF is_new /\ ~HasTable(font, "hmtx") THEN Err("TableMissing")
    ELSE save_with_hmtx(font, is_new, target_n, rebuilt.val,
            IF is_new
            THEN extend_hmtx(font.tables["hmtx"], NumGlyphs(font), target_n,
                             checked)
            ELSE Ok(IF HasTable(font, "hmtx") THEN font.tables["hmtx"]
                    ELSE EmptyBuf))

\* the cap on the glyph count, then the glyf/loca rebuild
save_with_target(font, args, new_glyph_bytes, target, checked) ==
    IF ~target.ok THEN target
    ELSE IF exceeds_max_glyphs(target.val) THEN Err("GlyphIdOverflow")
    ELSE save_rebuilt(font, is_new_glyph(args.glyph_id, NumGlyphs(font)),
            ToNat(target.val),
            rebuild_glyf_with_patch(font.tables["glyf"], FontOffsets(font),
                AsUsize(args.glyph_id), new_glyph_bytes, IsLong(font),
                ToNat(target.val)),
            checked)

\* "Read loca + glyf raw bytes", "Determine if we're adding a new glyph"
save_with_glyph(font, args, new_glyph_bytes, checked) ==
    IF ~new_glyph_bytes.ok THEN new_glyph_bytes
    ELSE IF ~GlyfTablesPresent(font) THEN Err("TableMissing")
    ELSE save_with_target(font, args, new_glyph_bytes.val,
            target_num_glyphs(args.glyph_id, NumGlyphs(font), checked),
            checked)

\* "Parse the SVG path back to font-space points"
save_with_cmds(font, args, cmds, checked) ==
    IF ~cmds.ok THEN cmds
    ELSE save_with_glyph(font, args,
                         build_glyf_glyph_bytes(cmds.val, checked), checked)

save_with_font(font, args, checked) ==
    IF ~font.ok THEN font
    ELSE save_with_cmds(font.val, args, parse_svg_path_cmds(args.svg_path),
                        checked)

save_glyph_outline(b, args, checked) ==
    save_with_font(read_font(b), args, checked)

\* the record the outline reader finds for glyph gid: None when the glyph has
\* no loca entry pair or its range leaves the glyf table
glyph_record(font, gid) ==
    IF ~GlyfTablesPresent(font) THEN None
    ELSE LET loca == font.tables["loca"]
             glyf == font.tables["glyf"]
             entries == BLen(loca) \div (IF IsLong(font) THEN 4 ELSE 2)
             offs == parse_loca_offsets(loca, entries, IsLong(font))
         IN IF gid + 2 > entries THEN None
            ELSE IF offs[gid + 1] > offs[gid + 2] \/ offs[gid + 2] > BLen(glyf)
            THEN None
            ELSE Some(BSlice(glyf, offs[gid + 1], offs[gid + 2]))

\* The four bytes of an f32: the bit pattern is not computed, an integer-valued
\* f32 is written as the integer's four little-endian bytes.
F32LE(v) == U32LE(v)

\* extract_glyph_outlines: one GlyphOutline per glyph below maxp.numGlyphs that
\* has a record and draws a path.  The path the pen writes for a record is
\* represented by the record's own bytes, its bounding box by sixteen zero
\* bytes; the font has no cmap names.
RECURSIVE extract_from(_, _, _)
extract_from(font, glyph_id, glyph_outlines) ==
    IF glyph_id >= NumGlyphs(font) THEN glyph_outlines
    ELSE LET rec == glyph_record(font, glyph_id)
             aw == advance_width(font, glyph_id)
         IN extract_from(font, glyph_id + 1,
                IF rec = None \/ rec.some = EmptyBuf THEN glyph_outlines
                ELSE Append(glyph_outlines,
                        [glyph_id |-> glyph_id, glyph_name |-> None,
                         svg_path |-> rec.some,
                         advance_width |->
                             F32LE(IF aw = None THEN 0 ELSE aw.some),
                         bounds |-> Some(<< <<0, 16>> >>)]))

extract_glyph_outlines(b) ==
    IF b.kind # "font" THEN Err("MalformedFont")
    ELSE IF ~HasTable(b, "maxp") THEN Err("TableMissing")
    ELSE Ok(extract_from(b, 0, << >>))

\* the CachedOutlines get_glyph_outlines_binary builds from the bytes it read
build_cached_outlines(b) ==
    LET outlines_ == extract_glyph_outlines(b) IN
    IF ~outlines_.ok THEN outlines_
    ELSE Ok([outlines |-> outlines_.val,
             units_per_em |-> IF HasTable(b, "head")
                              THEN b.tables["head"].units_per_em ELSE 1000,
             num_glyphs |-> NumGlyphs(b)])

\* the string of the first name record with the given name id
FirstName(font, name_id, default) ==
    IF ~HasTable(font, "name") THEN default
    ELSE LET name_table == font.tables["name"]
             hits == { k \in 1..Len(name_table) :
                         name_table[k].name_id = name_id }
         IN IF hits = {} THEN default ELSE name_table[Lowest(hits)].string

\* the FontMetadata parse_font returns for the font it parsed
font_metadata(font) ==
    [family_name |-> FirstName(font, 1, "Unknown"),
     style_name |-> FirstName(font, 2, "Regular"),
     num_glyphs |-> IF HasTable(font, "maxp") THEN NumGlyphs(font) ELSE 0,
     available_tables |-> DOMAIN font.tables]

----------------------------------------------------------------------------
(* Direct calls of rebuild_glyf_with_patch, as its two callers make them:  *)
(* the offsets are those parse_loca_offsets reads from the font's loca for *)
(* the font's maxp.numGlyphs + 1 entries.                                  *)

Threads == {"t1", "t2"}

NoThread == "none"

\* the cache machine at rest, for the specifications of direct calls
MachineIdle ==
    /\ disk = None /\ fonts = None /\ outlines = None
    /\ fonts_lock = NoThread /\ outlines_lock = NoThread
    /\ pc = [t \in Threads |-> "idle"]
    /\ op = [t \in Threads |-> None]
    /\ bytes = [t \in Threads |-> None]
    /\ new_bytes = [t \in Threads |-> None]
    /\ extracted = [t \in Threads |-> None]
    /\ result = [t \in Threads |-> None]
    /\ overflow_checks = FALSE

MachineUnchanged ==
    UNCHANGED <<disk, fonts, outlines, fonts_lock, outlines_lock, pc, op, bytes,
                new_bytes, extracted, result, overflow_checks>>

MaxGlyphId == 3

BigRun == LocaOverflowLimit - 6

\* the loca bytes that hold a list of offsets
RECURSIVE LocaBytes(_, _)
LocaBytes(offs, is_long) ==
    IF offs = << >> THEN EmptyBuf
    ELSE BCat(IF is_long THEN U32BE(offs[1]) ELSE U16BE(offs[1] \div 2),
              LocaBytes(Tail(offs), is_long))

\* glyf tables with the offsets of their glyphs
GlyfTables ==
    { [glyf |-> BFromSeq(<<1, 2, 3, 4, 5, 0, 0, 0, 9, 9, 9, 9>>),
       offs |-> <<0, 8, 8, 12>>],
      [glyf |-> BFromSeq(<<1, 2, 3, 4, 5, 6>>), offs |-> <<0, 2, 6>>],
      [glyf |-> BFromSeq(<<1, 2, 3, 4, 5, 6, 7, 8, 9, 10, 11, 12>>),
       offs |-> <<0, 8, 4, 20>>],
      [glyf |-> BCat(<< <<7, BigRun>> >>, BFromSeq(<<1, 2, 3, 4>>)),
       offs |-> <<0, BigRun, BigRun + 4>>],
      [glyf |-> EmptyBuf, offs |-> <<0>>] }

NewGlyphs ==
    { EmptyBuf, BFromSeq(<<5>>), BFromSeq(<<5, 6, 7, 8>>),
      BFromSeq(<<0, 1, 0, 0, 0>>), << <<3, BigRun + 8>> >> }

\* u32 glyph ids: the small ones, the ones around the 65535 cap, and u32::MAX
GlyphIdArgs ==
    { <<i, 0>> : i \in 0..MaxGlyphId }
        \cup { <<65534, 0>>, <<65535, 0>>, <<0, 1>>, <<65535, 65535>> }

\* The calls save_glyph_outline and update_composite_offsets make: the target
\* glyph count is the one the caller computes from glyph_id and maxp.numGlyphs
\* (update_composite_offsets passes numGlyphs, with glyph_id below it), and the
\* call is made only when it is at most 65535.  The loops over a target count
\* near 65535 are left out: MaxGlyphId bounds the glyph ids that reach the call.
RebuildCalls ==
    { c \in
        { [fn |-> "rebuild_glyf_with_patch", glyf |-> g.glyf,
           loca |-> LocaBytes(g.offs, l), num_glyphs |-> n,
           glyph_id |-> AsUsize(gid), new_glyph |-> ng, is_long |-> l,
           target_num_glyphs |-> ToNat(target_num_glyphs(gid, n, FALSE).val)] :
          g \in GlyfTables, l \in BOOLEAN, n \in 0..MaxGlyphId,
          gid \in GlyphIdArgs, ng \in NewGlyphs } :
      c.target_num_glyphs <= MaxGlyphId + 1 }

CallOffsets == parse_loca_offsets(call.loca, call.num_glyphs + 1, call.is_long)

InitRebuild ==
    /\ MachineIdle
    /\ call \in { c \in RebuildCalls :
                    \* maxp.numGlyphs is the font's own, or one off it
                    LET e == BLen(c.loca) \div (IF c.is_long THEN 4 ELSE 2)
                    IN c.num_glyphs + 1 \in {e - 1, e, e + 1} }
    /\ ret = None

CallRebuild ==
    /\ call # None /\ call.fn = "rebuild_glyf_with_patch" /\ ret = None
    /\ ret' = rebuild_glyf_with_patch(call.glyf, CallOffsets, call.glyph_id,
                                      call.new_glyph, call.is_long,
                                      call.target_num_glyphs)
    /\ UNCHANGED call
    /\ MachineUnchanged

NextRebuild == CallRebuild

SpecRebuild == InitRebuild /\ [][NextRebuild]_vars

----------------------------------------------------------------------------
(* Claims about the glyf/loca rebuild (SpecRebuild) *)

RebuildReturned ==
    call # None /\ call.fn = "rebuild_glyf_with_patch" /\ ret # None

\* the offsets the copy loop of the call computes (new_offsets in the code)
CallScan ==
    GlyfScan(call.glyf, CallOffsets, call.glyph_id, call.new_glyph,
             call.target_num_glyphs, 0,
             [new_glyf |-> EmptyBuf, new_offsets |-> << >>])

LocaEntrySize == IF call.is_long THEN 4 ELSE 2

\* the offsets a reader finds in the loca bytes the call returned
RetOffsets ==
    parse_loca_offsets(ret.val.new_loca,
                       BLen(ret.val.new_loca) \div LocaEntrySize, call.is_long)

\* C5: whenever the glyf/loca rebuild succeeds, the offsets it produced are
\* exactly targetNumGlyphs + 1 entries, the first is 0, they are non-decreasing,
\* each is a multiple of 4, and the last equals the length of the new glyf.
C5_RebuildOffsetsShape ==
    (RebuildReturned /\ ret.ok) =>
        LET o == RetOffsets
            n == Len(o)
        IN /\ BLen(ret.val.new_loca) = (call.target_num_glyphs + 1) * LocaEntrySize
           /\ n = call.target_num_glyphs + 1
           /\ o[1] = 0
           /\ \A k \in 1..(n - 1) : o[k] <= o[k + 1]
           /\ \A k \in 1..n : o[k] % 4 = 0
           /\ o[n] = BLen(ret.val.new_glyf)

C5_Witness ==
    /\ RebuildReturned /\ ret.ok
    /\ call.target_num_glyphs >= 3
    /\ call.target_num_glyphs > call.num_glyphs
    /\ BLen(ret.val.new_glyf) > 8
    /\ BLen(call.new_glyph) % 4 # 0
    /\ call.glyph_id = UsizeOf(2)

\* the original loca is non-decreasing and within the glyf table
LocaWellFormed ==
    /\ \A k \in 1..(Len(CallOffsets) - 1) : CallOffsets[k] <= CallOffsets[k + 1]
    /\ \A k \in 1..Len(CallOffsets) : CallOffsets[k] <= BLen(call.glyf)

\* slot i of the new glyf holds exactly `data`, then only zero bytes
SlotHolds(i, data) ==
    LET o == RetOffsets
        from == o[i + 1]
        to == o[i + 2]
    IN /\ from + BLen(data) <= to
       /\ BSlice(ret.val.new_glyf, from, from + BLen(data)) = data
       /\ BAllZero(BSlice(ret.val.new_glyf, from + BLen(data), to))
       /\ to - (from + BLen(data)) < 4

\* the glyf/loca rebuild keeps every slot of the table it writes: within
\* 0 .. targetNumGlyphs - 1 the target holds the replacement, the other old
\* glyphs their old bytes, the synthesised ones nothing
RebuildFrameWithinTarget ==
    (RebuildReturned /\ ret.ok /\ LocaWellFormed) =>
        LET current_num == Len(CallOffsets) - 1
            o == RetOffsets
        IN \A i \in 0..(call.target_num_glyphs - 1) :
              IF UsizeOf(i) = call.glyph_id
              THEN SlotHolds(i, call.new_glyph)
              ELSE IF i < current_num
              THEN SlotHolds(i, BSlice(call.glyf, CallOffsets[i + 1],
                                       CallOffsets[i + 2]))
              ELSE o[i + 1] = o[i + 2]

\* C6: with an original loca that is non-decreasing and within glyf, for every
\* glyph i < currentNumGlyphs other than the target the new glyf holds, from
\* the new offset of i, the original bytes [loca[i], loca[i+1]) followed only
\* by zero padding; the target slot holds exactly the replacement bytes
\* followed only by zero padding; every slot i with
\* currentNumGlyphs <= i < targetGlyphId is empty.
C6_RebuildFrame ==
    (RebuildReturned /\ ret.ok /\ LocaWellFormed) =>
        LET current_num == Len(CallOffsets) - 1
            slots == 0..(call.target_num_glyphs - 1)
        IN /\ \A i \in 0..(current_num - 1) :
                UsizeOf(i) # call.glyph_id =>
                    /\ i \in slots
                    /\ SlotHolds(i, BSlice(call.glyf, CallOffsets[i + 1],
                                           CallOffsets[i + 2]))
           /\ \E i \in slots :
                UsizeOf(i) = call.glyph_id /\ SlotHolds(i, call.new_glyph)
           /\ \A i \in slots :
                (current_num <= i /\ LimbLt(UsizeOf(i), call.glyph_id)) =>
                    RetOffsets[i + 1] = RetOffsets[i + 2]

C6_Witness ==
    /\ RebuildReturned /\ ret.ok /\ LocaWellFormed
    /\ Len(CallOffsets) - 1 = 2
    /\ call.glyph_id = UsizeOf(3)
    /\ call.target_num_glyphs = 4
    /\ call.new_glyph = BFromSeq(<<5>>)
    /\ BLen(BSlice(call.glyf, CallOffsets[2], CallOffsets[3])) = 4
    /\ CallOffsets[2] = 2

\* C7: in short loca format the rebuild fails with LocaOverflow exactly when
\* some new offset exceeds 0x1FFFE, and when it succeeds every written 16-bit
\* entry times two equals the corresponding offset; in long format the rebuild
\* never fails and writes each offset as a raw 32-bit big-endian value.
C7_LocaEncoding ==
    RebuildReturned =>
        LET no == CallScan.new_offsets IN
        IF call.is_long
        THEN /\ ret.ok
             /\ BLen(ret.val.new_loca) = 4 * Len(no)
             /\ \A k \in 1..Len(no) :
                    ReadU32BE(ret.val.new_loca, 4 * (k - 1)) = no[k]
        ELSE /\ ret.ok <=> ~(\E k \in 1..Len(no) : no[k] > 131070)
             /\ ~ret.ok => ret = Err("LocaOverflow")
             /\ ret.ok =>
                  /\ BLen(ret.val.new_loca) = 2 * Len(no)
                  /\ \A k \in 1..Len(no) :
                        ReadU16BE(ret.val.new_loca, 2 * (k - 1)) * 2 = no[k]

C7_Witness ==
    /\ RebuildReturned /\ ~call.is_long /\ ~ret.ok
    /\ BLen(call.glyf) <= 131070
    /\ BLen(call.new_glyph) <= 8

----------------------------------------------------------------------------
(* The cache machine: one font file, the FontCache, and two threads that   *)
(* each run one operation on the path.                                     *)

Poisoned == "poisoned"

SimpleGlyph == BFromSeq(<<0, 1, 0, 0, 0, 0, 0, 10, 0, 10, 0, 0>>)

\* one component: glyph 0 at the byte offsets (5, 0)
CompositeGlyph ==
    BFromSeq(<<255, 255, 0, 0, 0, 0, 0, 10, 0, 10, 0, 2, 0, 0, 5, 0>>)

\* a three-glyph TrueType font: a simple glyph, a composite of it, an empty one
TestFont ==
    [kind |-> "font",
     tables |->
        [tag \in {"head", "hhea", "maxp", "name", "OS/2", "loca", "glyf", "hmtx"} |->
            CASE tag = "head" ->
                    [font_revision |-> 65536, flags |-> 3, units_per_em |-> 1000,
                     created |-> 0, modified |-> 0, x_min |-> 0, y_min |-> 0,
                     x_max |-> 10, y_max |-> 10, mac_style |-> 0,
                     lowest_rec_ppem |-> 8, font_direction_hint |-> 2,
                     index_to_loc_format |-> 0, glyph_data_format |-> 0]
              [] tag = "hhea" ->
                    [ascender |-> 800, descender |-> -200, line_gap |-> 0,
                     caret_slope_rise |-> 1, caret_slope_run |-> 0,
                     caret_offset |-> 0, advance_width_max |-> 600,
                     number_of_h_metrics |-> 2]
              [] tag = "maxp" -> [num_glyphs |-> 3, max_points |-> 3]
              [] tag = "name" ->
                    << [platform_id |-> 3, encoding_id |-> 1,
                        language_id |-> 1033, name_id |-> 1, string |-> "A"],
                       [platform_id |-> 3, encoding_id |-> 1,
                        language_id |-> 1033, name_id |-> 2, string |-> "R"] >>
              [] tag = "OS/2" -> [x_avg_char_width |-> 550, us_weight_class |-> 400]
              [] tag = "loca" -> LocaBytes(<<0, 12, 28, 28>>, FALSE)
              [] tag = "glyf" -> BCat(SimpleGlyph, CompositeGlyph)
              [] tag = "hmtx" -> BFromSeq(<<1, 244, 0, 0, 2, 88, 0, 0, 0, 0>>)]]

\* the length of HeavyFont's first glyph: the three glyphs end 6 bytes below
\* the last offset a short loca can hold
HeavyGlyphLen == LocaOverflowLimit - 30

\* a component with word arguments, cut after the first of them
CutComposite ==
    BFromSeq(<<255, 255, 0, 0, 0, 0, 0, 10, 0, 10, 0, 1, 0, 0, 5, 0>>)

\* a composite glyph cut inside its header
ShortComposite == BFromSeq(<<255, 255, 0, 0, 0, 0, 0, 10>>)

\* TestFont without a name table, its first glyph grown to HeavyGlyphLen bytes
\* and its other two glyphs replaced by damaged composites
HeavyFont ==
    [kind |-> "font",
     tables |->
        [tag \in DOMAIN TestFont.tables \ {"name"} |->
            CASE tag = "loca" ->
                    LocaBytes(<<0, HeavyGlyphLen, HeavyGlyphLen + 16,
                                HeavyGlyphLen + 24>>, FALSE)
              [] tag = "glyf" ->
                    BCat(BCat(BRepeat(SimpleGlyph, 0, HeavyGlyphLen - 12),
                              CutComposite), ShortComposite)
              [] OTHER -> TestFont.tables[tag]]]

InitialFiles == {TestFont, HeavyFont, Garbage, NoFile}

HeadUpdates ==
    { [font_revision |-> 131072, flags |-> 3, units_per_em |-> 2048,
       created |-> 0, modified |-> 1, x_min |-> 0, y_min |-> 0, x_max |-> 10,
       y_max |-> 10, mac_style |-> 0, lowest_rec_ppem |-> 8,
       font_direction_hint |-> 2, index_to_loc_format |-> 0] }

HheaUpdates ==
    { [ascender |-> 900, descender |-> -100, line_gap |-> 0,
       caret_slope_rise |-> 1, caret_slope_run |-> 0, caret_offset |-> 0] }

TrianglePath ==
    <<"M", "0", " ", "0", "L", "1", "0", " ", "0", "L", "0", " ", "-", "1", "0",
      "Z">>

CubicPath ==
    <<"M", "0", " ", "0", "C", "1", " ", "1", " ", "2", " ", "2", " ", "3", " ",
      "3", "Z">>

TruncatedPath == <<"M", "1">>

GlyfName == <<" ", "g", "l", "y", "f">>

CffName == <<"C", "F", "F", " ">>

SaveArgs ==
    { [glyph_id |-> g, svg_path |-> TrianglePath, table_name |-> GlyfName] :
        g \in { <<0, 0>>, <<MaxGlyphId, 0>>, <<65535, 0>>, <<65535, 65535>> } }
    \cup { [glyph_id |-> <<0, 0>>, svg_path |-> CubicPath, table_name |-> GlyfName],
           [glyph_id |-> <<0, 0>>, svg_path |-> TruncatedPath,
            table_name |-> GlyfName],
           [glyph_id |-> <<0, 0>>, svg_path |-> TrianglePath,
            table_name |-> CffName] }

\* the calls a thread can make on the path
Calls ==
    { [fn |-> "parse_font"] }
    \cup { [fn |-> "get_glyph_outlines_binary", offset |-> o, limit |-> <<2, 0>>] :
             o \in { <<0, 0>>, <<65535, 65535>> } }
    \cup { [fn |-> "update_head_table", updates |-> u] : u \in HeadUpdates }
    \cup { [fn |-> "update_hhea_table", updates |-> u] : u \in HheaUpdates }
    \cup { [fn |-> "update_maxp_table", updates |-> [num_glyphs |-> n]] :
             n \in {2, 3} }
    \cup { [fn |-> "update_name_table",
            updates |-> [name_id |-> n, platform_id |-> 3, value |-> "B"]] :
             n \in {1, 9} }
    \cup { [fn |-> "update_composite_offsets", composite_glyph_id |-> g,
            components |-> << [x_offset |-> F32(2005, 10),
                               y_offset |-> F32(-3, 1)] >>] :
             g \in { <<0, 0>>, <<1, 0>>, <<2, 0>>, <<5, 0>> } }
    \cup { [fn |-> "save_glyph_outline", args |-> a] : a \in SaveArgs }

Mutators ==
    {"update_head_table", "update_hhea_table", "update_maxp_table",
     "update_name_table", "update_composite_offsets", "save_glyph_outline"}

\* the new bytes the mutating operation o builds from the bytes b it read
new_font_bytes(o, b, checked) ==
    CASE o.fn = "update_head_table" -> update_head_table(b, o.updates)
      [] o.fn = "update_hhea_table" -> update_hhea_table(b, o.updates)
      [] o.fn = "update_maxp_table" -> update_maxp_table(b, o.updates)
      [] o.fn = "update_name_table" -> update_name_table(b, o.updates)
      [] o.fn = "update_composite_offsets" ->
            update_composite_offsets(b, o.composite_glyph_id, o.components)
      [] o.fn = "save_glyph_outline" -> save_glyph_outline(b, o.args, checked)

Init ==
    /\ disk \in InitialFiles
    /\ fonts = None /\ outlines = None
    /\ fonts_lock = NoThread /\ outlines_lock = NoThread
    /\ pc = [t \in Threads |-> "idle"]
    /\ op = [t \in Threads |-> None]
    /\ bytes = [t \in Threads |-> None]
    /\ new_bytes = [t \in Threads |-> None]
    /\ extracted = [t \in Threads |-> None]
    /\ result = [t \in Threads |-> None]
    /\ overflow_checks \in BOOLEAN
    /\ call = None /\ ret = None

\* thread t returns r: its locals are dropped
Return(t, r) ==
    /\ result' = [result EXCEPT ![t] = r]
    /\ pc' = [pc EXCEPT ![t] = "done"]
    /\ bytes' = [bytes EXCEPT ![t] = None]
    /\ new_bytes' = [new_bytes EXCEPT ![t] = None]
    /\ extracted' = [extracted EXCEPT ![t] = None]

Goto(t, where) == pc' = [pc EXCEPT ![t] = where]

\* a command is invoked; save_glyph_outline checks the table name first
Start(t) ==
    /\ pc[t] = "idle" /\ op[t] = None
    /\ \E c \in Calls :
        /\ op' = [op EXCEPT ![t] = c]
        /\ IF c.fn = "save_glyph_outline" /\ unsupported_table(c.args.table_name)
           THEN Return(t, Err("UnsupportedOutlineTable"))
           ELSE /\ Goto(t, IF c.fn = "parse_font" THEN "pf_read"
                           ELSE IF c.fn = "get_glyph_outlines_binary"
                           THEN "gb_check" ELSE "get")
                /\ UNCHANGED <<bytes, new_bytes, extracted, result>>
    /\ UNCHANGED <<disk, fonts, outlines, fonts_lock, outlines_lock,
                   overflow_checks, call, ret>>

\* cache.fonts.lock().unwrap(), in FontCache::get, FontCache::insert and the
\* insert of the mutating operations
LockFonts(t) ==
    /\ pc[t] \in {"get", "insert", "pf_insert"}
    /\ fonts_lock = NoThread
    /\ fonts_lock' = t
    /\ UNCHANGED <<disk, fonts, outlines, outlines_lock, pc, op, bytes,
                   new_bytes, extracted, result, overflow_checks, call, ret>>

\* cache.outlines.lock().unwrap(): a poisoned mutex makes the unwrap panic
LockOutlines(t) ==
    /\ pc[t] \in {"gb_check", "gb_insert", "gb_serve", "remove"}
    /\ outlines_lock \in {NoThread, Poisoned}
    /\ IF outlines_lock = Poisoned
       THEN /\ Return(t, Panic("PoisonError"))
            /\ UNCHANGED outlines_lock
       ELSE /\ outlines_lock' = t
            /\ UNCHANGED <<pc, bytes, new_bytes, extracted, result>>
    /\ UNCHANGED <<disk, fonts, outlines, fonts_lock, op, overflow_checks,
                   call, ret>>

\* FontCache::get: the cached bytes, cloned, and the guard dropped
CacheGet(t) ==
    /\ pc[t] = "get" /\ fonts_lock = t
    /\ fonts_lock' = NoThread
    /\ IF fonts # None
       THEN /\ bytes' = [bytes EXCEPT ![t] = fonts]
            /\ Goto(t, "compute")
       ELSE /\ Goto(t, "read")
            /\ UNCHANGED bytes
    /\ UNCHANGED <<disk, fonts, outlines, outlines_lock, op, new_bytes,
                   extracted, result, overflow_checks, call, ret>>

\* unwrap_or_else(|| fs::read(file_path).unwrap_or_default())
FsRead(t) ==
    /\ pc[t] = "read"
    /\ bytes' = [bytes EXCEPT ![t] = fs_read_or_default(disk)]
    /\ Goto(t, "compute")
    /\ UNCHANGED <<disk, fonts, outlines, fonts_lock, outlines_lock, op,
                   new_bytes, extracted, result, overflow_checks, call, ret>>

\* where a mutating operation goes with what it built
after_build_WritesAnyway(r) == "write"

after_build(r) == IF r.ok THEN "write" ELSE "done"

\* get_glyph_outlines_binary has built r from the bytes it read
Extracted(t, r) ==
    IF r.ok
    THEN /\ extracted' = [extracted EXCEPT ![t] = r.val]
         /\ Goto(t, "gb_insert")
         /\ UNCHANGED <<bytes, new_bytes, result>>
    ELSE Return(t, r)

\* a mutating operation has built r from the bytes it read
Built(t, r) ==
    IF after_build(r) = "write"
    THEN /\ new_bytes' = [new_bytes EXCEPT ![t] =
                          IF r.ok THEN r.val ELSE bytes[t]]
         /\ Goto(t, "write")
         /\ result' = [result EXCEPT ![t] = IF r.ok THEN None ELSE r]
         /\ UNCHANGED <<bytes, extracted>>
    ELSE Return(t, r)

\* everything between reading the bytes and the file write (the outline
\* extraction, for get_glyph_outlines_binary): no lock is held
Compute(t) ==
    /\ pc[t] = "compute"
    /\ IF op[t].fn = "get_glyph_outlines_binary"
       THEN Extracted(t, IF bytes[t] = EmptyBytes THEN Err("IoError")
                         ELSE build_cached_outlines(bytes[t]))
       ELSE Built(t, new_font_bytes(op[t], bytes[t], overflow_checks))
    /\ UNCHANGED <<disk, fonts, outlines, fonts_lock, outlines_lock, op,
                   overflow_checks, call, ret>>

\* fs::write(file_path, &new_bytes)
FsWrite(t) ==
    /\ pc[t] = "write"
    /\ disk' = new_bytes[t]
    /\ Goto(t, "insert")
    /\ UNCHANGED <<fonts, outlines, fonts_lock, outlines_lock, op, bytes,
                   new_bytes, extracted, result, overflow_checks, call, ret>>

\* cache.fonts.lock().unwrap().insert(path, new_bytes): the guard is a
\* temporary of the statement and is dropped at its end
CacheInsert(t) ==
    /\ pc[t] = "insert" /\ fonts_lock = t
    /\ fonts' = new_bytes[t]
    /\ fonts_lock' = NoThread
    /\ Goto(t, "remove")
    /\ UNCHANGED <<disk, outlines, outlines_lock, op, bytes, new_bytes,
                   extracted, result, overflow_checks, call, ret>>

\* cache.outlines.lock().unwrap().remove(file_path); Ok(())
OutlinesRemove(t) ==
    /\ pc[t] = "remove" /\ outlines_lock = t
    /\ outlines' = None
    /\ outlines_lock' = NoThread
    /\ Return(t, Ok(None))
    /\ UNCHANGED <<disk, fonts, fonts_lock, op, overflow_checks, call, ret>>

\* parse_font: fs::read(file_path)?, then RawFontRef::new(&bytes)?
ParseRead(t) ==
    /\ pc[t] = "pf_read"
    /\ IF disk = NoFile THEN Return(t, Err("IoError"))
       ELSE IF disk.kind # "font" THEN Return(t, Err("MalformedFont"))
       ELSE /\ bytes' = [bytes EXCEPT ![t] = disk]
            /\ Goto(t, "pf_insert")
            /\ UNCHANGED <<new_bytes, extracted, result>>
    /\ UNCHANGED <<disk, fonts, outlines, fonts_lock, outlines_lock, op,
                   overflow_checks, call, ret>>

\* parse_font: cache.insert(path, bytes.clone()), then the metadata
ParseInsert(t) ==
    /\ pc[t] = "pf_insert" /\ fonts_lock = t
    /\ fonts' = bytes[t]
    /\ fonts_lock' = NoThread
    /\ Return(t, Ok(font_metadata(bytes[t])))
    /\ UNCHANGED <<disk, outlines, outlines_lock, op, overflow_checks, call,
                   ret>>

\* the presence check with its guard kept for the whole block
OutlinesCheck_KeepsLock(t) ==
    /\ pc[t] = "gb_check" /\ outlines_lock = t
    /\ Goto(t, IF outlines # None THEN "gb_serve" ELSE "get")
    /\ UNCHANGED <<disk, fonts, outlines, fonts_lock, outlines_lock, op, bytes,
                   new_bytes, extracted, result, overflow_checks, call, ret>>

\* get_glyph_outlines_binary: has_cached = ...contains_key(file_path)
OutlinesCheck(t) ==
    /\ pc[t] = "gb_check" /\ outlines_lock = t
    /\ outlines_lock' = NoThread
    /\ Goto(t, IF outlines # None THEN "gb_serve" ELSE "get")
    /\ UNCHANGED <<disk, fonts, outlines, fonts_lock, op, bytes, new_bytes,
                   extracted, result, overflow_checks, call, ret>>

\* get_glyph_outlines_binary: cache.outlines.lock().unwrap().insert(...)
OutlinesInsert(t) ==
    /\ pc[t] = "gb_insert" /\ outlines_lock = t
    /\ outlines' = extracted[t]
    /\ outlines_lock' = NoThread
    /\ Goto(t, "gb_serve")
    /\ UNCHANGED <<disk, fonts, fonts_lock, op, bytes, new_bytes, extracted,
                   result, overflow_checks, call, ret>>

\* the page server returns r, or panics with r, and the guard is dropped
Served(t, r) ==
    /\ Return(t, r)
    /\ outlines_lock' = IF IsPanic(r) THEN Poisoned ELSE NoThread

\* get_glyph_outlines_binary, "Serve the requested page from cache": the
\* guard outline_cache is held to the end; a panic under it poisons the mutex
Serve(t) ==
    /\ pc[t] = "gb_serve" /\ outlines_lock = t
    /\ Served(t, IF outlines = None THEN Panic("unwrap on None")
                 ELSE serve_page(outlines, op[t].offset, op[t].limit,
                                 overflow_checks))
    /\ UNCHANGED <<disk, fonts, outlines, fonts_lock, op, overflow_checks,
                   call, ret>>

Next ==
    \E t \in Threads :
        \/ Start(t)
        \/ LockFonts(t)
        \/ LockOutlines(t)
        \/ CacheGet(t)
        \/ FsRead(t)
        \/ Compute(t)
        \/ FsWrite(t)
        \/ CacheInsert(t)
        \/ OutlinesRemove(t)
        \/ ParseRead(t)
        \/ ParseInsert(t)
        \/ OutlinesCheck(t)
        \/ OutlinesInsert(t)
        \/ Serve(t)

Spec == Init /\ [][Next]_vars

\* a started operation that can take a step eventually takes one: the
\* threads are scheduled by the operating system and a free mutex is granted
\* to a waiter.  Compute(t) can be taken exactly when pc[t] = "compute" and
\* Serve(t) exactly when t is at "gb_serve" with the guard, and both leave
\* that place: weak fairness of the two is stated by the places
FairSpec == Spec /\ \A t \in Threads :
    /\ WF_vars(LockFonts(t) \/ LockOutlines(t) \/ CacheGet(t) \/ FsRead(t)
               \/ FsWrite(t) \/ CacheInsert(t) \/ OutlinesRemove(t)
               \/ ParseRead(t) \/ ParseInsert(t) \/ OutlinesCheck(t)
               \/ OutlinesInsert(t))
    /\ []<>(pc[t] # "compute")
    /\ []<>(~(pc[t] = "gb_serve" /\ outlines_lock = t))

----------------------------------------------------------------------------
(* Direct calls of the page server on a cached OutlineSet *)

MaxOutlines == 3

F32Zero == << <<0, 4>> >>

F32Adv(i) == BFromSeq(<<0, 0, 122 + i, 68>>)

\* the GlyphOutline of glyph i, with or without a name
TestOutline(i) ==
    [glyph_id |-> 2 * i, glyph_name |-> IF i % 2 = 0 THEN None
                                        ELSE Some(BFromSeq(<<85, 43, 48 + i>>)),
     svg_path |-> BFromSeq(<<77, 48 + i, 32, 48, 32, 90>>),
     advance_width |-> F32Adv(i),
     bounds |-> IF i = 2 THEN None
                ELSE Some(BCat(F32Adv(i), << <<0, 12>> >>))]

\* CachedOutlines of n outlines for a font of 2n + 1 glyphs
TestCached(n) ==
    [outlines |-> [i \in 1..n |-> TestOutline(i)],
     units_per_em |-> 1000 + n, num_glyphs |-> 2 * n + 1]

U32Args ==
    { <<i, 0>> : i \in 0..(MaxOutlines + 1) }
        \cup { <<0, 1>>, <<0, 32768>>, <<65535, 65535>>, <<65534, 65535>> }

InitPage ==
    /\ MachineIdle
    /\ call \in { [fn |-> "serve_page", cached |-> TestCached(n),
                   offset |-> o, limit |-> l, checked |-> c] :
                  n \in 0..MaxOutlines, o \in U32Args, l \in U32Args,
                  c \in BOOLEAN }
    /\ ret = None

CallPage ==
    /\ call # None /\ call.fn = "serve_page" /\ ret = None
    /\ ret' = serve_page(call.cached, call.offset, call.limit, call.checked)
    /\ UNCHANGED call
    /\ MachineUnchanged

NextPage == CallPage

SpecPage == InitPage /\ [][NextPage]_vars

PageReturned == call # None /\ call.fn = "serve_page" /\ ret # None

\* a reader of the stream: the header, then batchCount glyph records
ReadU16LE(b, i) == BAt(b, i) + 256 * BAt(b, i + 1)

ReadU32LE(b, i) == BAt(b, i) + 256 * BAt(b, i + 1) + 65536 * BAt(b, i + 2)
                   + 16777216 * BAt(b, i + 3)

RECURSIVE DecodeGlyphs(_, _, _)
DecodeGlyphs(b, pos, count) ==
    IF count = 0 THEN [glyphs |-> << >>, pos |-> pos]
    ELSE LET has_bounds == BAt(b, pos + 8)
             p1 == pos + 9 + (IF has_bounds = 1 THEN 16 ELSE 0)
             name_len == ReadU16LE(b, p1)
             p2 == p1 + 2 + name_len
             path_len == ReadU32LE(b, p2)
             g == [glyph_id |-> ReadU32LE(b, pos),
                   advance_width |-> BSlice(b, pos + 4, pos + 8),
                   bounds |-> IF has_bounds = 1
                              THEN Some(BSlice(b, pos + 9, pos + 25)) ELSE None,
                   name |-> BSlice(b, p1 + 2, p2),
                   svg_path |-> BSlice(b, p2 + 4, p2 + 4 + path_len)]
             rest == DecodeGlyphs(b, p2 + 4 + path_len, count - 1)
         IN [glyphs |-> <<g>> \o rest.glyphs, pos |-> rest.pos]

DecodePage(b) ==
    LET count == ReadU32LE(b, 4)
        body == DecodeGlyphs(b, 10, count)
    IN [total_glyphs |-> ReadU32LE(b, 0), batch_count |-> count,
        units_per_em |-> ReadU16LE(b, 8), glyphs |-> body.glyphs,
        consumed |-> body.pos]

\* what the stream says of one cached outline
Described(o) ==
    [glyph_id |-> o.glyph_id, advance_width |-> o.advance_width,
     bounds |-> o.bounds,
     name |-> IF o.glyph_name = None THEN EmptyBuf ELSE o.glyph_name.some,
     svg_path |-> o.svg_path]

\* min(x, n) for a u32 x and a small n, as a natural
MinNat(x, n) == IF IsSmall(x) /\ ToNat(x) <= n THEN ToNat(x) ELSE n

\* min(offset + limit, n), the sum taken in the integers
MinSumNat(x, y, n) ==
    IF MinNat(x, n) = n \/ MinNat(y, n) = n THEN n
    ELSE Min(ToNat(x) + ToNat(y), n)

\* C10: for every 32-bit offset and limit and a cached OutlineSet of n
\* outlines the page server returns success, never an error or a panic, and
\* the stream encodes exactly outlines[min(offset,n) .. min(offset+limit,n)],
\* offset + limit taken without wrap-around; batchCount is the slice length,
\* totalGlyphs is the font's maxp.numGlyphs, and offset >= n gives batchCount 0.
C10_PageSlice ==
    PageReturned =>
        LET n == Len(call.cached.outlines)
            lo == MinNat(call.offset, n)
            hi == MinSumNat(call.offset, call.limit, n)
        IN /\ ret.ok
           /\ LET page == DecodePage(ret.val) IN
              /\ page.consumed = BLen(ret.val)
              /\ page.batch_count = hi - lo
              /\ page.glyphs = [k \in 1..(hi - lo) |->
                                   Described(call.cached.outlines[lo + k])]
              /\ page.total_glyphs = call.cached.num_glyphs
              /\ page.units_per_em = call.cached.units_per_em
              /\ (lo = n => page.batch_count = 0)

C10_Witness ==
    /\ PageReturned /\ ret.ok
    /\ Len(call.cached.outlines) = 3
    /\ call.offset = <<1, 0>>
    /\ call.limit = <<65535, 65535>>
    /\ DecodePage(ret.val).batch_count = 2
    /\ DecodePage(ret.val).total_glyphs = 7

----------------------------------------------------------------------------
(* Claims about the cache machine *)

Quiescent == \A t \in Threads : pc[t] \in {"idle", "done"}

Running(t, fns) == op[t] # None /\ op[t].fn \in fns

\* C1: for every interleaving of parse_font and the mutating operations on
\* the path, once all of them have returned, the bytes cached for the path
\* equal the bytes of the file on disk.
C1_CacheEqualsDisk ==
    (/\ Quiescent
     /\ \A t \in Threads :
            op[t] # None => op[t].fn \in Mutators \cup {"parse_font"}
     /\ fonts # None)
        => fonts = disk

\* the OutlineSet cached for the path was not extracted from the cached bytes
StaleOutlines ==
    /\ fonts # None /\ outlines # None
    /\ outlines # build_cached_outlines(fonts).val

\* C2: in a mutating operation the replacement of the cached bytes and the
\* removal of the cached OutlineSet are one critical section: from the
\* replacement until the removal the operation holds the bytes lock, so that no
\* state another thread can observe has the new bytes cached next to the
\* OutlineSet built from the previous bytes.
C2_OneCriticalSection ==
    \A t \in Threads :
        (Running(t, Mutators) /\ pc[t] = "remove")
            => /\ fonts_lock = t
               /\ (outlines_lock = t \/ ~StaleOutlines)

PreWriteErrors ==
    {"IoError", "MalformedFont", "TableMissing", "BadPath", "CubicInGlyfTable",
     "UnsupportedOutlineTable", "GlyphIdOverflow", "LocaOverflow",
     "MalformedComposite", "CompositeTooShort", "GlyphOutOfRange",
     "GlyphNotFound", "NoMatchingNameRecord"}

IsPreWriteError(r) == r # None /\ ~r.ok /\ ~IsPanic(r) /\ r.err \in PreWriteErrors

\* the step is one of thread t
StepOf(t) == pc'[t] # pc[t] \/ (fonts_lock' = t /\ fonts_lock # t)
             \/ (outlines_lock' = t /\ outlines_lock # t)

PreWritePcs == {"idle", "get", "read", "compute"}

\* C3: a mutating operation that returns an error detected before its file
\* write has changed nothing: it returns from a place before the write, and
\* no step it takes up to and including the return, nor any after it, changes
\* the file, the cached bytes or the cached OutlineSet.
C3_ErrorLeavesStateUnchanged ==
    [][\A t \in Threads :
          (/\ StepOf(t)
           /\ op'[t] # None /\ op'[t].fn \in Mutators
           /\ (pc[t] \in PreWritePcs \/ IsPreWriteError(result'[t])))
            => /\ disk' = disk /\ fonts' = fonts /\ outlines' = outlines
               /\ IsPreWriteError(result'[t]) => pc[t] \in PreWritePcs]_vars

\* a save has failed on the glyph-count cap while the other thread's OutlineSet
\* is cached for the font on disk
C3_Witness ==
    \E t \in Threads :
        /\ Running(t, {"save_glyph_outline"})
        /\ result[t] = Err("GlyphIdOverflow")
        /\ outlines # None /\ disk = TestFont

\* a cubic command, and the list s with e put after its first k elements
CubicCmd ==
    [cmd |-> "CurveTo",
     args |-> <<F32(1, 1), F32(-1, 1), F32(2, 1), F32(-2, 1), F32(3, 1),
                F32(-3, 1)>>]

InsertAt(s, k, e) == SubSeq(s, 1, k) \o <<e>> \o SubSeq(s, k + 1, Len(s))

HasCubic(cmds) == \E k \in 1..Len(cmds) : cmds[k].cmd = "CurveTo"

\* thread t saves, to the glyf table, a path with a cubic command letter
SavesCubic(t) ==
    /\ Running(t, {"save_glyph_outline"})
    /\ ~unsupported_table(op[t].args.table_name)
    /\ \E i \in 1..Len(op[t].args.svg_path) :
          op[t].args.svg_path[i] \in {"C", "c"}

\* the encoder rejects cmds as it is when it has a cubic, and with a cubic
\* put at any place of it
RejectsCubicAnywhere(cmds) ==
    /\ HasCubic(cmds) =>
         \A checked \in BOOLEAN :
            build_glyf_glyph_bytes(cmds, checked) = Err("CubicInGlyfTable")
    /\ \A with_cubic \in { InsertAt(cmds, k, CubicCmd) : k \in 0..Len(cmds) },
          checked \in BOOLEAN :
          build_glyf_glyph_bytes(with_cubic, checked) = Err("CubicInGlyfTable")

\* a save that read the bytes b and parsed cmds has failed with r: with
\* CubicInGlyfTable when the font could be read and the path parsed
CubicSaveFailed(r, b, cmds) ==
    /\ ~r.ok /\ ~IsPanic(r)
    /\ (b # None /\ cmds.ok) =>
          \A font \in {read_font(b)} :
             font.ok => HasCubic(cmds.val) /\ r = Err("CubicInGlyfTable")

\* C19: the SimpleGlyph encoder returns CubicInGlyfTable for every command
\* list that has a Cubic command at any position (checked, as a save
\* starts, on the commands of its path and on those commands with a cubic
\* put at each place); saveGlyphOutline with a path that has a cubic and
\* table glyf fails, and no step of it writes the file or changes the
\* cached bytes or the cached OutlineSet.
C19_CubicRejected ==
    [][\A t \in Threads :
          (StepOf(t) /\ op'[t] # None /\ op'[t].fn = "save_glyph_outline") =>
            \A cmds \in {parse_svg_path_cmds(op'[t].args.svg_path)} :
               /\ (pc[t] = "idle" /\ cmds.ok)
                    => \A list \in {cmds.val} : RejectsCubicAnywhere(list)
               /\ SavesCubic(t)' =>
                    /\ disk' = disk /\ fonts' = fonts /\ outlines' = outlines
                    /\ (result[t] = None /\ result'[t] # None)
                         => CubicSaveFailed(result'[t], bytes[t], cmds)]_vars

\* a save of a path with a cubic has returned CubicInGlyfTable on the test
\* font while the other thread has rewritten the file
C19_Witness ==
    \E t \in Threads :
        /\ SavesCubic(t)
        /\ result[t] = Err("CubicInGlyfTable")
        /\ disk \notin InitialFiles

LocaEntries(font) ==
    BLen(font.tables["loca"]) \div (IF IsLong(font) THEN 4 ELSE 2)

\* C4: the saved font has maxp.numGlyphs equal to the number of loca entries
\* minus one, after any sequence of successful mutating operations on a font
\* that had it.
C4_NumGlyphsMatchesLoca ==
    (disk.kind = "font" /\ GlyfTablesPresent(disk))
        => NumGlyphs(disk) = LocaEntries(disk) - 1

\* glyphId + 1 > 65535, in the integers
PastCap(glyph_id) == ~IsSmall(glyph_id) \/ ToNat(glyph_id) + 1 > MaxNumGlyphs

\* C8: for every 32-bit glyphId save_glyph_outline either fails (with
\* GlyphIdOverflow when glyphId + 1 exceeds 65535, writing nothing) or builds a
\* font whose maxp.numGlyphs is max(currentNumGlyphs, glyphId + 1), at most
\* 65535 and never below currentNumGlyphs.
C8_GlyphCountAfterSave ==
    \A t \in Threads :
        Running(t, {"save_glyph_outline"}) =>
            /\ (PastCap(op[t].args.glyph_id) /\ result[t] # None)
                   => (~result[t].ok /\ ~IsPanic(result[t]))
            /\ pc[t] = "write" =>
                   /\ ~PastCap(op[t].args.glyph_id)
                   /\ NumGlyphs(new_bytes[t]) =
                          Max(NumGlyphs(bytes[t]),
                              ToNat(op[t].args.glyph_id) + 1)
                   /\ NumGlyphs(new_bytes[t]) <= MaxNumGlyphs
                   /\ NumGlyphs(new_bytes[t]) >= NumGlyphs(bytes[t])

HmtxBytes(font) ==
    IF HasTable(font, "hmtx") THEN font.tables["hmtx"] ELSE EmptyBuf

\* the hmtx thread t is about to write is the one its glyph id calls for
HmtxAsClaimed(t) ==
    LET glyph_id == op[t].args.glyph_id
        current == NumGlyphs(bytes[t])
    IN IF is_new_glyph(glyph_id, current)
       THEN /\ IsSmall(glyph_id)
            /\ HmtxBytes(new_bytes[t]) =
                   BRepeat(HmtxBytes(bytes[t]), 0,
                           2 * (ToNat(glyph_id) + 1 - current))
       ELSE HmtxBytes(new_bytes[t]) = HmtxBytes(bytes[t])

\* C9: save_glyph_outline of a new glyph (glyphId >= currentNumGlyphs) builds
\* an hmtx that is the old hmtx followed by exactly two zero bytes for each of
\* the glyphId + 1 - currentNumGlyphs added glyphs; of an existing glyph, an
\* hmtx equal to the old one.
C9_HmtxAfterSave ==
    \A t \in Threads :
        (Running(t, {"save_glyph_outline"}) /\ pc[t] = "write")
            => HmtxAsClaimed(t)

\* the part of C9 that holds: whenever glyphId + 1 fits in 32 bits
HmtxAfterSaveBelowWrap ==
    \A t \in Threads :
        (/\ Running(t, {"save_glyph_outline"}) /\ pc[t] = "write"
         /\ ~AddOverflows(op[t].args.glyph_id, U32One)) => HmtxAsClaimed(t)

\* a new glyph's save is about to write its extended hmtx
HmtxExtended ==
    \E t \in Threads :
        /\ Running(t, {"save_glyph_outline"}) /\ pc[t] = "write"
        /\ op[t].args.glyph_id = <<MaxGlyphId, 0>>

----------------------------------------------------------------------------
(* The structured outline builder: get_glyph_outline_data and the tree of  *)
(* GlyphOutlineData it builds for a composite glyph.                       *)

\* the transform bytes a component with these flags carries
TransformLen(flags) ==
    IF HasBit(flags, WE_HAVE_A_TWO_BY_TWO) THEN 8
    ELSE IF HasBit(flags, WE_HAVE_AN_X_AND_Y_SCALE) THEN 4
    ELSE IF HasBit(flags, WE_HAVE_A_SCALE) THEN 2 ELSE 0

\* the loop of parse_composite_components, from the component at pos on
RECURSIVE parse_components(_, _, _)
parse_components(data, pos, components) ==
    IF pos + 4 > BLen(data) THEN components
    ELSE
    LET flags == ReadU16BE(data, pos)
        component_glyph_id == ReadU16BE(data, pos + 2)
        words == HasBit(flags, ARG_1_AND_2_ARE_WORDS)
        args_end == pos + 4 + (IF words THEN 4 ELSE 2)
    IN IF args_end > BLen(data) THEN components
       ELSE
       LET arg1 == IF words THEN ReadI16BE(data, pos + 4)
                   ELSE U8AsI8(BAt(data, pos + 4))
           arg2 == IF words THEN ReadI16BE(data, pos + 6)
                   ELSE U8AsI8(BAt(data, pos + 5))
           xy == HasBit(flags, ARGS_ARE_XY_VALUES)
           found == Append(components,
                       [glyph_id |-> component_glyph_id,
                        x_offset |-> IF xy THEN F32(arg1, 1) ELSE F32(0, 1),
                        y_offset |-> IF xy THEN F32(arg2, 1) ELSE F32(0, 1),
                        outline |-> None])
       IN IF HasBit(flags, MORE_COMPONENTS)
          THEN parse_components(data, args_end + TransformLen(flags), found)
          ELSE found

parse_composite_components(data) == parse_components(data, 0, << >>)

\* (is_composite, components) of glyph_id, read from loca and glyf directly
get_composite_info(font, glyph_id) ==
    LET no == [is_composite |-> FALSE, components |-> << >>] IN
    IF ~HasTable(font, "glyf") \/ ~HasTable(font, "loca")
       \/ ~HasTable(font, "head")
    THEN no
    ELSE
    LET glyf_bytes == font.tables["glyf"]
        loca_bytes == font.tables["loca"]
        is_long_loca == font.tables["head"].index_to_loc_format = 1
        idx == glyph_id * (IF is_long_loca THEN 4 ELSE 2)
    IN IF idx + (IF is_long_loca THEN 4 ELSE 2) > BLen(loca_bytes) THEN no
       ELSE
       LET glyph_start == IF is_long_loca THEN ReadU32BE(loca_bytes, idx)
                          ELSE ReadU16BE(loca_bytes, idx) * 2
       IN IF glyph_start + 2 > BLen(glyf_bytes) THEN no
          ELSE IF ReadI16BE(glyf_bytes, glyph_start) >= 0 THEN no
          ELSE IF glyph_start + 10 > BLen(glyf_bytes)
          THEN [is_composite |-> TRUE, components |-> << >>]
          ELSE \* parse_composite_components(&glyf_bytes[glyph_start + 10..]),
               \* the slice read in place
               [is_composite |-> TRUE,
                components |->
                    parse_components(glyf_bytes, glyph_start + 10, << >>)]

\* the left side bearing of glyph_id read from hmtx, 0.0 when it has none
get_hmtx_lsb(font, glyph_id) ==
    IF ~HasTable(font, "hmtx") \/ ~HasTable(font, "hhea") THEN 0
    ELSE
    LET hmtx_data == font.tables["hmtx"]
        num_h_metrics == font.tables["hhea"].number_of_h_metrics
        offset == IF glyph_id < num_h_metrics THEN glyph_id * 4 + 2
                  ELSE num_h_metrics * 4 + (glyph_id - num_h_metrics) * 2
    IN IF offset + 2 <= BLen(hmtx_data) THEN ReadI16BE(hmtx_data, offset) ELSE 0

\* the ids of the components the font library reads in glyph g's own record
ComponentIds(font, g) ==
    LET rec == glyph_record(font, g) IN
    IF rec = None THEN {}
    ELSE IF BLen(rec.some) < 10 \/ ReadI16BE(rec.some, 0) >= 0 THEN {}
    ELSE LET cs == parse_composite_components(
                       BSlice(rec.some, 10, BLen(rec.some)))
         IN {cs[k].glyph_id : k \in 1..Len(cs)}

\* the glyphs reached from those of S through component references
RECURSIVE Closure(_, _)
Closure(font, S) ==
    LET more == S \cup UNION {ComponentIds(font, g) : g \in S}
    IN IF more = S THEN S ELSE Closure(font, more)

Nested(font, g) == Closure(font, ComponentIds(font, g))

\* the components of glyph_id nest without end
CycleReachable(font, glyph_id) ==
    \E g \in {glyph_id} \cup Nested(font, glyph_id) : g \in Nested(font, g)

\* font.outline_glyphs().get(glyph_id): the glyph has a loca entry pair inside
\* glyf.  The font library bounds the nesting of components it follows when it
\* sizes the outline; rejects_cycles says whether the linked version answers
\* None for a glyph whose components nest beyond any bound, or resolves it.
outline_lookup(font, glyph_id, rejects_cycles) ==
    /\ GlyfTablesPresent(font)
    /\ glyph_id < NumGlyphs(font)
    /\ glyph_record(font, glyph_id) # None
    /\ ~(rejects_cycles /\ CycleReachable(font, glyph_id))

\* the depth at which build_glyph_outline_data_recursive gives up
MaxBuildDepth == 5

\* into_outline_data, with what the recursion has filled in
outline_data(bytes_, glyph_id, info, components) ==
    LET aw == advance_width(bytes_, glyph_id) IN
    Some([glyph_id |-> glyph_id,
          glyph_name |-> None,
          contours |-> IF info.is_composite THEN EmptyBuf
                       ELSE glyph_record(bytes_, glyph_id).some,
          advance_width |-> IF aw = None THEN 0 ELSE aw.some,
          lsb |-> get_hmtx_lsb(bytes_, glyph_id),
          is_composite |-> info.is_composite,
          component_glyph_ids |->
              [k \in 1..Len(components) |-> components[k].glyph_id],
          components |-> components])

\* what the pen has drawn of a simple glyph is represented by the glyph's record
RECURSIVE build_glyph_outline_data_recursive(_, _, _, _)
RECURSIVE fill_components(_, _, _, _, _, _)
build_glyph_outline_data_recursive(bytes_, glyph_id, depth, rejects_cycles) ==
    IF depth > MaxBuildDepth THEN None
    ELSE IF bytes_.kind # "font" THEN None
    ELSE IF ~outline_lookup(bytes_, glyph_id, rejects_cycles) THEN None
    ELSE outline_data(bytes_, glyph_id, get_composite_info(bytes_, glyph_id),
             fill_components(bytes_,
                 get_composite_info(bytes_, glyph_id).components, 1, depth,
                 rejects_cycles, << >>))

\* "Recursively fill component outlines", from component k on
fill_components(bytes_, components, k, depth, rejects_cycles, filled) ==
    IF k > Len(components) THEN filled
    ELSE fill_components(bytes_, components, k + 1, depth, rejects_cycles,
             Append(filled,
                 [components[k] EXCEPT !.outline =
                     build_glyph_outline_data_recursive(bytes_,
                         components[k].glyph_id, depth + 1, rejects_cycles)]))

\* get_glyph_outline_data on the bytes it found in the cache or read
get_glyph_outline_data(bytes_, glyph_id, rejects_cycles) ==
    IF bytes_ = EmptyBytes THEN Err("IoError")
    ELSE LET data == build_glyph_outline_data_recursive(bytes_, glyph_id, 0,
                                                        rejects_cycles)
         IN IF data = None THEN Err("GlyphNotFound") ELSE Ok(data.some)

(* Direct calls of get_glyph_outline_data on fonts given by their component *)
(* graph: graph[g + 1] lists the components of glyph g, none for a simple   *)
(* glyph.                                                                   *)

\* the glyphs of the chain 1 -> 2 -> ... -> ChainLen
ChainLen == 7

ComponentBytes(ids, k) ==
    BFromSeq(<<0, 2 + (IF k < Len(ids) THEN MORE_COMPONENTS ELSE 0),
               ids[k] \div 256, ids[k] % 256, 5, 0>>)

RECURSIVE ComponentsBytes(_, _, _)
ComponentsBytes(ids, k, buf) ==
    IF k > Len(ids) THEN buf
    ELSE ComponentsBytes(ids, k + 1, BCat(buf, ComponentBytes(ids, k)))

GraphGlyph(ids) ==
    IF ids = << >> THEN SimpleGlyph
    ELSE ComponentsBytes(ids, 1,
             BFromSeq(<<255, 255, 0, 0, 0, 0, 0, 10, 0, 10>>))

RECURSIVE GraphGlyf(_, _, _)
GraphGlyf(graph, k, acc) ==
    IF k > Len(graph) THEN [acc EXCEPT !.offs = Append(@, BLen(acc.glyf))]
    ELSE GraphGlyf(graph, k + 1,
             [glyf |-> BCat(acc.glyf, PadTo4(GraphGlyph(graph[k]))),
              offs |-> Append(acc.offs, BLen(acc.glyf))])

GraphFont(graph) ==
    LET built == GraphGlyf(graph, 1, [glyf |-> EmptyBuf, offs |-> << >>]) IN
    [kind |-> "font",
     tables |->
        [tag \in DOMAIN TestFont.tables |->
            CASE tag = "loca" -> LocaBytes(built.offs, FALSE)
              [] tag = "glyf" -> built.glyf
              [] tag = "maxp" -> [num_glyphs |-> Len(graph), max_points |-> 3]
              [] OTHER -> TestFont.tables[tag]]]

\* glyph 0 simple, glyph g a composite of glyph g + 1, glyph ChainLen simple
ChainGraph ==
    [k \in 1..(ChainLen + 1) |->
        IF k = 1 \/ k = ChainLen + 1 THEN << >> ELSE <<k>>]

Graphs ==
    { ChainGraph,
      << << >>, <<1>> >>,
      << << >>, <<2>>, <<1>> >>,
      << << >>, <<1, 1>> >>,
      << << >>, <<0, 2>>, <<0, 9>> >> }

GraphFonts == {GraphFont(graph) : graph \in Graphs}

OutlineDataCalls ==
    [fn : {"get_glyph_outline_data"},
     font : GraphFonts,
     glyph_id : 0..(ChainLen + 1),
     rejects_cycles : BOOLEAN]

InitOutlineData ==
    /\ MachineIdle
    /\ call \in OutlineDataCalls
    /\ ret = None

CallOutlineData ==
    /\ call # None /\ call.fn = "get_glyph_outline_data" /\ ret = None
    /\ ret' = get_glyph_outline_data(call.font, call.glyph_id,
                                     call.rejects_cycles)
    /\ UNCHANGED call
    /\ MachineUnchanged

NextOutlineData == CallOutlineData

SpecOutlineData == InitOutlineData /\ [][NextOutlineData]_vars

----------------------------------------------------------------------------
(* Claims about the structured outline builder *)

OutlineDataReturned ==
    call # None /\ call.fn = "get_glyph_outline_data" /\ ret # None

\* the GlyphOutlineData nodes at nesting depth d below (and including) node
RECURSIVE NodesAt(_, _)
NodesAt(node, d) ==
    IF d = 0 THEN {node}
    ELSE UNION { NodesAt(node.components[k].outline.some, d - 1) :
                   k \in { j \in 1..Len(node.components) :
                             node.components[j].outline # None } }

\* C11: in the tree get_glyph_outline_data returns (the requested glyph at
\* nesting level 0) a build invoked at depth 5 returns an absent outline: every
\* component at nesting level 5 has outline = none, so no GlyphOutlineData node
\* exists at depth 5 or deeper.
C11_NoNodeAtDepthFive ==
    (OutlineDataReturned /\ ret.ok) =>
        /\ NodesAt(ret.val, MaxBuildDepth) = {}
        /\ \A node \in NodesAt(ret.val, MaxBuildDepth - 1) :
               \A k \in 1..Len(node.components) :
                   node.components[k].outline = None

\* what the code does: the nodes stop one level later
NoNodeBelowDepthFive ==
    (OutlineDataReturned /\ ret.ok) =>
        NodesAt(ret.val, MaxBuildDepth + 1) = {}

\* the chain 1 -> 2 -> ... has been resolved from glyph 1
ChainResolved ==
    /\ OutlineDataReturned /\ ret.ok
    /\ call.font = GraphFont(ChainGraph) /\ call.glyph_id = 1

\* a component is left unresolved only where the build has given up: at the
\* depth bound, or when the font has no such glyph or the lookup rejects it
RECURSIVE UnresolvedAbsent(_, _, _)
UnresolvedAbsent(c, node, d) ==
    \A k \in 1..Len(node.components) :
        LET comp == node.components[k] IN
        IF comp.outline = None
        THEN \/ d = MaxBuildDepth
             \/ ~outline_lookup(c.font, comp.glyph_id, c.rejects_cycles)
        ELSE /\ comp.outline.some.glyph_id = comp.glyph_id
             /\ UnresolvedAbsent(c, comp.outline.some, d + 1)

TreeForEveryGraph(c, r) ==
    /\ r.ok
    /\ r.val.glyph_id = c.glyph_id
    /\ NodesAt(r.val, MaxBuildDepth + 1) = {}
    /\ UnresolvedAbsent(c, r.val, 0)

\* C12: get_glyph_outline_data terminates and returns a tree, not an error,
\* for every component graph and every glyph of the font, a composite that
\* names itself and a cycle of composites included; the unresolved components
\* have an absent nested outline and the nesting depth of the tree is below a
\* bound that does not depend on the font.
C12_TreeForEveryGraph ==
    (OutlineDataReturned /\ call.glyph_id < NumGlyphs(call.font))
        => TreeForEveryGraph(call, ret)

\* C12 holds of the recursion itself: whenever the font library's lookup of
\* the requested glyph succeeds
TreeWhenLookupSucceeds ==
    (/\ OutlineDataReturned
     /\ outline_lookup(call.font, call.glyph_id, call.rejects_cycles))
        => TreeForEveryGraph(call, ret)

\* a self-referencing composite has been resolved into a tree
CycleResolved ==
    /\ OutlineDataReturned /\ ret.ok
    /\ CycleReachable(call.font, call.glyph_id)
    /\ NodesAt(ret.val, MaxBuildDepth) # {}

----------------------------------------------------------------------------
(* The composite patch as a call.  A composite record is the 10-byte glyph *)
(* header, then its components, then whatever follows the last component   *)
(* (the instructions).  A component is its flags word, its glyph id word,  *)
(* two arguments (int8 or int16) and 0, 2, 4 or 8 transform bytes.         *)

MaxComponents == 2

\* the components the records are made of: byte offsets, word offsets with
\* a scale, word arguments holding small offsets with an x and y scale,
\* point indices with a two-by-two, byte offsets at the ends of the range;
\* 512 is the flag USE_MY_METRICS and 4 the flag ROUND_XY_TO_GRID, which
\* the patch has no name for
ComponentKinds ==
    { [flags |-> ARGS_ARE_XY_VALUES + 512, glyph_id |-> 10,
       arg1 |-> 5, arg2 |-> -3, transform |-> << >>],
      [flags |-> ARG_1_AND_2_ARE_WORDS + ARGS_ARE_XY_VALUES + WE_HAVE_A_SCALE,
       glyph_id |-> 11, arg1 |-> 200, arg2 |-> -300,
       transform |-> <<64, 0>>],
      [flags |-> ARG_1_AND_2_ARE_WORDS + ARGS_ARE_XY_VALUES
                 + 4 + WE_HAVE_AN_X_AND_Y_SCALE,
       glyph_id |-> 12, arg1 |-> 5, arg2 |-> -3,
       transform |-> <<64, 0, 32, 0>>],
      [flags |-> WE_HAVE_A_TWO_BY_TWO, glyph_id |-> 300,
       arg1 |-> 1, arg2 |-> 2,
       transform |-> <<64, 0, 0, 1, 0, 2, 64, 0>>],
      [flags |-> ARGS_ARE_XY_VALUES, glyph_id |-> 14,
       arg1 |-> -128, arg2 |-> 127, transform |-> << >>] }

InstructionBytes == {<< >>, <<0, 2, 7, 9>>}

\* the components of a record in order: all but the last announce another
\* one, the last announces the instructions (flag 256) when there are any
Chained(kinds, trailing) ==
    [k \in 1..Len(kinds) |->
       [kinds[k] EXCEPT !.flags =
          @ + (IF k < Len(kinds) THEN MORE_COMPONENTS
               ELSE IF trailing # << >> THEN 256 ELSE 0)]]

ComponentRecord(c) ==
    BCat(BCat(BCat(U16BE(c.flags), U16BE(c.glyph_id)),
              IF HasBit(c.flags, ARG_1_AND_2_ARE_WORDS)
              THEN BCat(I16BE(c.arg1), I16BE(c.arg2))
              ELSE BFromSeq(<<I8AsU8(c.arg1), I8AsU8(c.arg2)>>)),
         BFromSeq(c.transform))

RECURSIVE CompositeRecord(_, _, _, _)
CompositeRecord(components, trailing, k, buf) ==
    IF k > Len(components) THEN BCat(buf, BFromSeq(trailing))
    ELSE CompositeRecord(components, trailing, k + 1,
                         BCat(buf, ComponentRecord(components[k])))

CompositeHeader == BFromSeq(<<255, 255, 0, 0, 0, 0, 0, 10, 0, 10>>)

\* the well-formed records, each with the components it was made of
CompositeRecords ==
    { [components |-> Chained(kinds, trailing), trailing |-> trailing,
       record |-> CompositeRecord(Chained(kinds, trailing), trailing, 1,
                                  CompositeHeader)] :
      kinds \in UNION { [1..n -> ComponentKinds] : n \in 1..MaxComponents },
      trailing \in InstructionBytes }

ComponentOffset(x, y) == [x_offset |-> x, y_offset |-> y]

\* new offsets: inside the int8 range, outside it, just past either end of
\* it, at its ends, and past the int16 range
NewOffsets ==
    { ComponentOffset(F32(5, 1), F32(-3, 1)),
      ComponentOffset(F32(2005, 10), F32(-300, 1)),
      ComponentOffset(F32(1276, 10), F32(0, 1)),
      ComponentOffset(F32(12, 1), F32(-1284, 10)),
      ComponentOffset(F32(-128, 1), F32(127, 1)),
      ComponentOffset(F32(40000, 1), F32(0, 1)) }

OffsetLists == UNION { [1..n -> NewOffsets] : n \in 0..MaxComponents }

\* the offsets a reader of the record is given: those of
\* parse_composite_components over the bytes after the header
ParsedOffsets(glyph_data) ==
    LET parsed == parse_composite_components(
                      BSlice(glyph_data, 10, BLen(glyph_data)))
    IN [k \in 1..Len(parsed) |->
          ComponentOffset(parsed[k].x_offset, parsed[k].y_offset)]

PatchCall(r, glyph_data, updates) ==
    [fn |-> "patch_composite_glyph_offsets", components |-> r.components,
     trailing |-> r.trailing, record |-> r.record,
     glyph_data |-> glyph_data, updates |-> updates]

\* a whole record with any list of new offsets or with its own offsets, and
\* every proper prefix of a record that keeps the header
PatchCalls ==
    { PatchCall(r, r.record, updates) :
        r \in CompositeRecords, updates \in OffsetLists }
    \cup { PatchCall(r, r.record, ParsedOffsets(r.record)) :
             r \in CompositeRecords }
    \cup UNION { { PatchCall(r, BSlice(r.record, 0, n),
                             <<ComponentOffset(F32(2005, 10), F32(-300, 1))>>) :
                     n \in 10..(BLen(r.record) - 1) } :
                 r \in CompositeRecords }

InitPatch ==
    /\ MachineIdle
    /\ call \in PatchCalls
    /\ ret = None

CallPatch ==
    /\ call # None /\ call.fn = "patch_composite_glyph_offsets" /\ ret = None
    /\ ret' = patch_composite_glyph_offsets(call.glyph_data, call.updates)
    /\ UNCHANGED call
    /\ MachineUnchanged

NextPatch == CallPatch

SpecPatch == InitPatch /\ [][NextPatch]_vars

----------------------------------------------------------------------------
(* Claims about the composite patch *)

PatchReturned ==
    call # None /\ call.fn = "patch_composite_glyph_offsets" /\ ret # None

\* the call was given a whole, well-formed record
WholeRecord == call.glyph_data = call.record

\* the first n components laid out in data from pos on, as the glyf format
\* lays them out, and the position after them
RECURSIVE ReadComponents(_, _, _, _)
ReadComponents(data, pos, n, acc) ==
    IF n = 0 \/ pos + 4 > BLen(data) THEN [components |-> acc, end |-> pos]
    ELSE LET flags == ReadU16BE(data, pos)
             args_end == pos + 4 + (IF flags % 2 = 1 THEN 4 ELSE 2)
             end == args_end
                    + (IF (flags \div 128) % 2 = 1 THEN 8
                       ELSE IF (flags \div 64) % 2 = 1 THEN 4
                       ELSE IF (flags \div 8) % 2 = 1 THEN 2 ELSE 0)
         IN IF end > BLen(data) THEN [components |-> acc, end |-> pos]
            ELSE ReadComponents(data, end, n - 1,
                    Append(acc,
                       [flags |-> flags,
                        glyph_id |-> ReadU16BE(data, pos + 2),
                        args |-> BSlice(data, pos + 4, args_end),
                        transform |-> BSlice(data, args_end, end)]))

ComponentsBefore ==
    ReadComponents(call.glyph_data, 10, Len(call.components), << >>)

ComponentsAfter == ReadComponents(ret.val, 10, Len(call.components), << >>)

InByteRange(v) == -128 * v.d <= v.n /\ v.n <= 127 * v.d

InWordRange(v) == -32768 * v.d <= v.n /\ v.n <= 32767 * v.d

\* a flags word without its two argument-format bits
OtherFlagBits(flags) == flags - (flags % 4)

\* component k of the patched record has the flags the new offsets ask for
FlagsAsClaimed(k) ==
    LET new == call.updates[k]
        flags == ComponentsAfter.components[k].flags
    IN /\ (flags \div 2) % 2 = 1
       /\ (flags % 2 = 1) <=> (~InByteRange(new.x_offset)
                               \/ ~InByteRange(new.y_offset))
       /\ BLen(ComponentsAfter.components[k].args)
            = (IF InByteRange(new.x_offset) /\ InByteRange(new.y_offset)
               THEN 2 ELSE 4)
       /\ OtherFlagBits(flags)
            = OtherFlagBits(ComponentsBefore.components[k].flags)

\* C13: for every component that is given a new (x, y) offset, the patched
\* flags have ARGS_ARE_XY_VALUES set, have ARG_1_AND_2_ARE_WORDS set exactly
\* when the new x or the new y lies outside [-128, 127], the arguments are
\* written in the width that flag declares (so that the components after it
\* and the end of the record are where the flags say), and every other flag
\* bit is the original's.
C13_PatchedFlags ==
    PatchReturned /\ WholeRecord =>
       /\ ret.ok
       /\ Len(ComponentsAfter.components) = Len(call.components)
       /\ ComponentsAfter.end + Len(call.trailing) = BLen(ret.val)
       /\ \A k \in 1..Min(Len(call.components), Len(call.updates)) :
             FlagsAsClaimed(k)

\* a two-component record whose first component held point indices in bytes
\* and gets offsets outside the byte range, and whose second held words and
\* gets offsets inside it
C13_Witness ==
    /\ PatchReturned /\ WholeRecord /\ ret.ok
    /\ Len(call.components) = 2 /\ Len(call.updates) = 2
    /\ ~HasBit(call.components[1].flags, ARGS_ARE_XY_VALUES)
    /\ ~InByteRange(call.updates[1].y_offset)
    /\ HasBit(ComponentsAfter.components[1].flags, ARG_1_AND_2_ARE_WORDS)
    /\ HasBit(call.components[2].flags, ARG_1_AND_2_ARE_WORDS)
    /\ ~HasBit(ComponentsAfter.components[2].flags, ARG_1_AND_2_ARE_WORDS)

\* C14: for a well-formed record the patch keeps the 10-byte header, the
\* number and order of the components, each component's glyph id, each
\* component's transform bytes and the bytes after the last component; only
\* flag words and argument bytes may differ.
C14_PatchFrame ==
    PatchReturned /\ WholeRecord =>
       /\ ret.ok
       /\ BSlice(ret.val, 0, 10) = BSlice(call.glyph_data, 0, 10)
       /\ Len(ComponentsAfter.components) = Len(call.components)
       /\ Len(ComponentsBefore.components) = Len(call.components)
       /\ \A k \in 1..Len(call.components) :
            /\ ComponentsAfter.components[k].glyph_id
                 = ComponentsBefore.components[k].glyph_id
            /\ ComponentsAfter.components[k].transform
                 = ComponentsBefore.components[k].transform
            /\ HasBit(ComponentsAfter.components[k].flags, MORE_COMPONENTS)
                 <=> k < Len(call.components)
       /\ BSlice(ret.val, ComponentsAfter.end, BLen(ret.val))
            = BSlice(call.glyph_data, ComponentsBefore.end,
                     BLen(call.glyph_data))
       /\ BSlice(ret.val, ComponentsAfter.end, BLen(ret.val))
            = BFromSeq(call.trailing)

\* a record with two components, a transform and instructions whose
\* arguments change width in both directions
C14_Witness ==
    /\ PatchReturned /\ WholeRecord /\ ret.ok
    /\ Len(call.components) = 2 /\ call.trailing # << >>
    /\ call.components[1].transform # << >>
    /\ BLen(ComponentsAfter.components[1].args)
         > BLen(ComponentsBefore.components[1].args)
    /\ BLen(ComponentsAfter.components[2].args)
         < BLen(ComponentsBefore.components[2].args)

\* the patched record, read back
ReadBack ==
    parse_composite_components(BSlice(ret.val, 10, BLen(ret.val)))

\* one new offset per component, each within the int16 range
OnePerComponent ==
    /\ Len(call.updates) = Len(call.components)
    /\ \A k \in 1..Len(call.updates) :
          /\ InWordRange(call.updates[k].x_offset)
          /\ InWordRange(call.updates[k].y_offset)

\* m is an integer and no integer is nearer to v
IsNearestInteger(m, v) == m.d = 1 /\ 2 * Abs(v.n - m.n * v.d) <= v.d

\* C15: for a well-formed record and a list of new offsets, one per
\* component and each within the signed 16-bit range, parsing the patched
\* record yields the same component glyph ids in the same order with x and
\* y equal to the new offsets rounded to the nearest integer.
C15_PatchThenParse ==
    PatchReturned /\ WholeRecord /\ OnePerComponent =>
       /\ ret.ok
       /\ Len(ReadBack) = Len(call.components)
       /\ \A k \in 1..Len(call.components) :
            /\ ReadBack[k].glyph_id = call.components[k].glyph_id
            /\ IsNearestInteger(ReadBack[k].x_offset,
                                call.updates[k].x_offset)
            /\ IsNearestInteger(ReadBack[k].y_offset,
                                call.updates[k].y_offset)

\* two components, one given an offset just above 127 that rounds to 128
\* and the other an offset below -128 that rounds to -128
C15_Witness ==
    /\ PatchReturned /\ WholeRecord /\ OnePerComponent /\ ret.ok
    /\ Len(call.components) = 2
    /\ call.updates[1].x_offset = F32(1276, 10)
    /\ ReadBack[1].x_offset = F32(128, 1)
    /\ call.updates[2].y_offset = F32(-1284, 10)
    /\ ReadBack[2].y_offset = F32(-128, 1)

\* the call writes back the offsets read from the record, all of them
\* within [-128, 127]
WritesBackSmallOffsets ==
    /\ PatchReturned
    /\ call.updates = ParsedOffsets(call.glyph_data)
    /\ Len(call.updates) = Len(call.components)
    /\ \A k \in 1..Len(call.updates) :
          /\ InByteRange(call.updates[k].x_offset)
          /\ InByteRange(call.updates[k].y_offset)

\* the flag words and the argument bytes of the patched record are those of
\* the original
SameFlagsAndArguments ==
    /\ ret.ok
    /\ Len(ComponentsAfter.components) = Len(call.components)
    /\ \A k \in 1..Len(call.components) :
          /\ ComponentsAfter.components[k].flags
               = ComponentsBefore.components[k].flags
          /\ ComponentsAfter.components[k].args
               = ComponentsBefore.components[k].args

\* C16, as stated: for any composite record whose component offsets all lie
\* in [-128, 127], patching it with exactly the offsets parsed from it
\* yields a record byte-equivalent to the original in its flag words and
\* argument layout.
C16_WriteBackAsStated == WritesBackSmallOffsets => SameFlagsAndArguments

\* every component stores x and y offsets in two bytes
ByteOffsetsOnly ==
    \A k \in 1..Len(call.components) :
       /\ HasBit(call.components[k].flags, ARGS_ARE_XY_VALUES)
       /\ ~HasBit(call.components[k].flags, ARG_1_AND_2_ARE_WORDS)

\* C16, amended: the write-back is byte-equivalent in flag words and
\* argument layout when, besides the offsets lying in [-128, 127], every
\* component has ARGS_ARE_XY_VALUES set and ARG_1_AND_2_ARE_WORDS clear.
C16_WriteBackByteOffsets ==
    WritesBackSmallOffsets /\ ByteOffsetsOnly =>
       SameFlagsAndArguments /\ ret.val = call.glyph_data

\* a write-back to two byte-offset components, one at the ends of the range
C16_Witness ==
    /\ WritesBackSmallOffsets /\ ByteOffsetsOnly /\ ret.ok
    /\ Len(call.components) = 2 /\ call.trailing # << >>
    /\ call.updates[2] = ComponentOffset(F32(-128, 1), F32(127, 1))

\* the bytes component k of the record occupies: [ComponentStart(k),
\* ComponentStart(k + 1))
RECURSIVE ComponentStart(_)
ComponentStart(k) ==
    IF k = 1 THEN 10
    ELSE ComponentStart(k - 1) + 4
         + (IF HasBit(call.components[k - 1].flags, ARG_1_AND_2_ARE_WORDS)
            THEN 4 ELSE 2)
         + Len(call.components[k - 1].transform)

\* the record given ends inside component k, cut bytes into it, with
\* lo <= cut < hi
EndsInside(k, lo, hi) ==
    LET cut == BLen(call.glyph_data) - ComponentStart(k)
    IN cut < ComponentStart(k + 1) - ComponentStart(k) /\ lo <= cut /\ cut < hi

ArgumentsEnd(k) ==
    IF HasBit(call.components[k].flags, ARG_1_AND_2_ARE_WORDS) THEN 8 ELSE 6

EndsMidComponent ==
    \E k \in 1..Len(call.components) : EndsInside(k, 1, 16)

\* C17: the patch returns MalformedComposite, and neither panics nor returns
\* a patched record, for every record that ends in the middle of a
\* component: inside the flags and glyph id words of a component announced
\* by MORE_COMPONENTS, inside the argument bytes, or inside the transform
\* bytes.
C17_TruncatedIsMalformed ==
    PatchReturned /\ EndsMidComponent => ret = Err("MalformedComposite")

\* what the patch does with each of the three: a record that ends inside
\* the flags and glyph id words is patched without the cut component, one
\* that ends inside the arguments is MalformedComposite, one that ends
\* inside the transform bytes panics
TruncatedByPlace ==
    PatchReturned =>
       \A k \in 1..Len(call.components) :
          /\ EndsInside(k, 1, 4) => ret.ok
          /\ EndsInside(k, 4, ArgumentsEnd(k))
               => ret = Err("MalformedComposite")
          /\ EndsInside(k, ArgumentsEnd(k), 16) => IsPanic(ret)

EndsInArguments ==
    PatchReturned /\ \E k \in 1..Len(call.components) :
                        EndsInside(k, 4, ArgumentsEnd(k))

----------------------------------------------------------------------------
(* update_name_table as a call, on fonts that differ in their name table   *)

MaxNameRecords == 3

NameRecord(platform_id, encoding_id, language_id, name_id, string) ==
    [platform_id |-> platform_id, encoding_id |-> encoding_id,
     language_id |-> language_id, name_id |-> name_id, string |-> string]

\* a Macintosh family name, a Windows family name in two languages, a
\* Windows style name and a Windows record without a readable string
NameRecordPool ==
    { NameRecord(1, 0, 0, 1, "M"), NameRecord(3, 1, 1031, 1, "F"),
      NameRecord(3, 1, 1033, 1, "A"), NameRecord(3, 1, 1033, 2, "R"),
      NameRecord(3, 1, 1033, 4, UnreadableString) }

\* the name tables: up to MaxNameRecords different records, in any order
NameTables ==
    { t \in UNION { [1..n -> NameRecordPool] : n \in 0..MaxNameRecords } :
        \A i, j \in 1..Len(t) : i # j => t[i] # t[j] }

NameUpdates ==
    { [name_id |-> n, platform_id |-> p, value |-> v] :
        n \in {1, 2, 9}, p \in {1, 3}, v \in {"A", "B"} }

FontWithNames(name_table) ==
    [kind |-> "font",
     tables |-> [tag \in {"maxp", "name"} |->
                    IF tag = "name" THEN name_table
                    ELSE [num_glyphs |-> 3, max_points |-> 3]]]

NameCalls ==
    { [fn |-> "update_name_table", bytes |-> FontWithNames(t),
       updates |-> u, sorts_records |-> srt] :
        t \in NameTables, u \in NameUpdates, srt \in BOOLEAN }
    \cup { [fn |-> "update_name_table", bytes |-> b,
            updates |-> u, sorts_records |-> FALSE] :
             b \in {EmptyBytes, Garbage,
                    [kind |-> "font",
                     tables |-> [tag \in {"maxp"} |->
                                    [num_glyphs |-> 3, max_points |-> 3]]]},
             u \in NameUpdates }

InitName ==
    /\ MachineIdle
    /\ call \in NameCalls
    /\ ret = None

CallName ==
    /\ call # None /\ call.fn = "update_name_table" /\ ret = None
    /\ ret' = update_name_table_built(call.bytes, call.updates,
                                      call.sorts_records)
    /\ UNCHANGED call
    /\ MachineUnchanged

NextName == CallName

SpecName == InitName /\ [][NextName]_vars

----------------------------------------------------------------------------
(* Claims about update_name_table *)

NameReturned == call # None /\ call.fn = "update_name_table" /\ ret # None

\* the call was given a font with a name table
HasNames == call.bytes.kind = "font" /\ "name" \in DOMAIN call.bytes.tables

NamesBefore == call.bytes.tables["name"]

NamesAfter == ret.val.tables["name"]

\* the records the patch names
Matching ==
    { k \in 1..Len(NamesBefore) :
        /\ NamesBefore[k].name_id = call.updates.name_id
        /\ NamesBefore[k].platform_id = call.updates.platform_id }

\* record k is as it was but for its string, which is the new value
Replaced(k) == NamesAfter[k] = [NamesBefore[k] EXCEPT !.string = call.updates.value]

ComesBefore(a, b) ==
    LET ka == <<a.platform_id, a.encoding_id, a.language_id, a.name_id>>
        kb == <<b.platform_id, b.encoding_id, b.language_id, b.name_id>>
    IN \E i \in 1..4 : ka[i] < kb[i] /\ \A j \in 1..(i - 1) : ka[j] = kb[j]

\* the table given is in that order and every string of it can be read
WellFormedNames ==
    /\ \A k \in 1..(Len(NamesBefore) - 1) :
          ComesBefore(NamesBefore[k], NamesBefore[k + 1])
    /\ \A k \in 1..Len(NamesBefore) :
          NamesBefore[k].string # UnreadableString

NameEditOfOneRecord ==
    NameReturned /\ HasNames /\ WellFormedNames
      /\ Cardinality(Matching) = 1 /\ ret.ok =>
         /\ Len(NamesAfter) = Len(NamesBefore)
         /\ \E k \in Matching :
               /\ Replaced(k)
               /\ \A j \in 1..Len(NamesBefore) :
                     j # k => NamesAfter[j] = NamesBefore[j]

----------------------------------------------------------------------------
(* The string pen.  A pen call is [op, args]: the OutlinePen method and    *)
(* its f32 arguments in font space.  The path is a sequence of characters. *)

\* the decimal digits of a natural number
RECURSIVE NatDigits(_)
NatDigits(n) ==
    IF n < 10 THEN <<DigitChars[n + 1]>>
    ELSE Append(NatDigits(n \div 10), DigitChars[(n % 10) + 1])

\* write!("{}", v) of an f32 that holds an integer
display_f32(v) ==
    IF v.n < 0 THEN <<"-">> \o NatDigits(0 - v.n) ELSE NatDigits(v.n)

\* write!("{}", -y): the negative zero that -y is for y = 0 is written "-0"
\* or "0", as the toolchain's Display has it
display_negated(y, signed_zero) ==
    IF y.n = 0 THEN (IF signed_zero THEN <<"-", "0">> ELSE <<"0">>)
    ELSE display_f32(F32Neg(y))

\* "{} {} " for a point (x, -y)
display_point(x, y, signed_zero) ==
    display_f32(x) \o <<" ">> \o display_negated(y, signed_zero) \o <<" ">>

\* one call of the pen on the path so far
SvgPathPen_call(path, c, signed_zero) ==
    IF c.op = "move_to"
    THEN path \o <<"M">> \o display_point(c.args[1], c.args[2], signed_zero)
    ELSE IF c.op = "line_to"
    THEN path \o <<"L">> \o display_point(c.args[1], c.args[2], signed_zero)
    ELSE IF c.op = "quad_to"
    THEN path \o <<"Q">> \o display_point(c.args[1], c.args[2], signed_zero)
              \o display_point(c.args[3], c.args[4], signed_zero)
    ELSE IF c.op = "curve_to"
    THEN path \o <<"C">> \o display_point(c.args[1], c.args[2], signed_zero)
              \o display_point(c.args[3], c.args[4], signed_zero)
              \o display_point(c.args[5], c.args[6], signed_zero)
    ELSE Append(path, "Z")

\* SvgPathPen::new(), the calls in order, into_path()
RECURSIVE SvgPathPen_path(_, _, _, _)
SvgPathPen_path(calls, k, signed_zero, path) ==
    IF k > Len(calls) THEN path
    ELSE SvgPathPen_path(calls, k + 1, signed_zero,
                         SvgPathPen_call(path, calls[k], signed_zero))

MaxPenCalls == 3

PenCall(method, coords) ==
    [op |-> method, args |-> [k \in 1..Len(coords) |-> F32(coords[k], 1)]]

\* calls with zero, negative, many-digit and extreme int16 coordinates
PenCallPool ==
    { PenCall("move_to", <<0, 0>>), PenCall("move_to", <<-7, 12>>),
      PenCall("line_to", <<10, -32768>>), PenCall("line_to", <<32767, 0>>),
      PenCall("quad_to", <<1, 2, 300, -4>>),
      PenCall("curve_to", <<0, 0, 5, -60, -7, 8>>),
      PenCall("close", << >>) }

PenCalls ==
    { [fn |-> "SvgPathPen", calls |-> calls, signed_zero |-> z] :
        calls \in UNION { [1..n -> PenCallPool] : n \in 0..MaxPenCalls },
        z \in BOOLEAN }

InitPen ==
    /\ MachineIdle
    /\ call \in PenCalls
    /\ ret = None

\* the pen draws the calls and the path it made is parsed
CallPen ==
    /\ call # None /\ call.fn = "SvgPathPen" /\ ret = None
    /\ \E path \in {SvgPathPen_path(call.calls, 1, call.signed_zero, << >>)} :
          ret' = [path |-> path, cmds |-> parse_svg_path_cmds(path)]
    /\ UNCHANGED call
    /\ MachineUnchanged

NextPen == CallPen

SpecPen == InitPen /\ [][NextPen]_vars

----------------------------------------------------------------------------
(* Claims about the string pen and the path parser *)

PenReturned == call # None /\ call.fn = "SvgPathPen" /\ ret # None

\* the command a pen call draws
DrawnAs(method) ==
    CASE method = "move_to" -> "MoveTo" [] method = "line_to" -> "LineTo"
      [] method = "quad_to" -> "QuadTo" [] method = "curve_to" -> "CurveTo"
      [] method = "close" -> "Close"

\* C20: for every sequence of calls the string pen writes (M, L, Q, C and Z
\* over integer font-space coordinates, each Y written negated), parsing
\* the string it made yields the same commands in the same order, with
\* every X and every Y equal to the font-space value the pen was given.
C20_PenThenParse ==
    PenReturned =>
       /\ ret.cmds.ok
       /\ Len(ret.cmds.val) = Len(call.calls)
       /\ \A k \in 1..Len(call.calls) :
             /\ ret.cmds.val[k].cmd = DrawnAs(call.calls[k].op)
             /\ ret.cmds.val[k].args = call.calls[k].args

\* a contour closed and another begun right after it, with a zero Y written
\* as "-0" and a negative Y
C20_Witness ==
    /\ PenReturned /\ ret.cmds.ok /\ call.signed_zero
    /\ Len(call.calls) = 3
    /\ call.calls[1] = PenCall("line_to", <<32767, 0>>)
    /\ call.calls[2].op = "close"
    /\ call.calls[3] = PenCall("curve_to", <<0, 0, 5, -60, -7, 8>>)
    /\ SubSeq(ret.path, 1, 11)
         = <<"L", "3", "2", "7", "6", "7", " ", "-", "0", " ", "Z">>

----------------------------------------------------------------------------
(* Claims about the locks and the interleavings of the cache machine *)

Pages == {"get_glyph_outlines_binary"}

\* C21: while get_glyph_outlines_binary reads the bytes and extracts the
\* outlines it holds neither the outlines lock nor (during the extraction)
\* the bytes lock: it holds the outlines lock only to check, to insert and to
\* serve; and when both threads run it, both return without a panic and,
\* if one succeeded, one OutlineSet is cached: the one of the font.
C21_LazyExtractionUnlocked ==
    /\ \A t \in Threads :
          Running(t, Pages) =>
             /\ pc[t] \in {"get", "read", "compute"} => outlines_lock # t
             /\ pc[t] \in {"read", "compute"} => fonts_lock # t
             /\ outlines_lock = t
                  => pc[t] \in {"gb_check", "gb_insert", "gb_serve"}
    /\ (\A t \in Threads : Running(t, Pages) /\ pc[t] = "done") =>
          /\ \A t \in Threads : ~IsPanic(result[t])
          /\ (\E t \in Threads : result[t].ok) =>
                /\ outlines # None
                /\ \A t \in Threads : result[t].ok
                /\ \A built \in {build_cached_outlines(disk)} :
                      built.ok /\ outlines = built.val

\* one thread has inserted its OutlineSet and the other, which extracted at
\* the same time, is about to insert its own
C21_Witness ==
    \E t, u \in Threads :
        /\ t # u /\ Running(t, Pages) /\ Running(u, Pages)
        /\ pc[t] = "gb_insert" /\ extracted[t] # None /\ outlines_lock = t
        /\ pc[u] = "gb_serve" /\ outlines # None

----------------------------------------------------------------------------
(* The SimpleGlyph encoder as a call, on lists of cubic-free commands      *)

MaxCmds == 3

Cmd(name, coords) ==
    [cmd |-> name, args |-> [k \in 1..Len(coords) |-> F32(coords[k], 1)]]

\* commands at the origin, at both ends of the int16 range and in between
CmdPool ==
    { Cmd("MoveTo", <<0, 0>>), Cmd("MoveTo", <<-32768, 32767>>),
      Cmd("LineTo", <<10, -5>>), Cmd("LineTo", <<32767, -32768>>),
      Cmd("QuadTo", <<1, 2, 3, 4>>), Cmd("Close", << >>) }

EncodeCalls ==
    { [fn |-> "build_glyf_glyph_bytes", cmds |-> cmds, checked |-> c] :
        cmds \in UNION { [1..n -> CmdPool] : n \in 0..MaxCmds },
        c \in BOOLEAN }

InitEncode ==
    /\ MachineIdle
    /\ call \in EncodeCalls
    /\ ret = None

CallEncode ==
    /\ call # None /\ call.fn = "build_glyf_glyph_bytes" /\ ret = None
    /\ ret' = build_glyf_glyph_bytes(call.cmds, call.checked)
    /\ UNCHANGED call
    /\ MachineUnchanged

NextEncode == CallEncode

SpecEncode == InitEncode /\ [][NextEncode]_vars

----------------------------------------------------------------------------
(* Claims about the SimpleGlyph encoder *)

EncodeReturned ==
    call # None /\ call.fn = "build_glyf_glyph_bytes" /\ ret # None

\* the contours a command list draws: a Move starts a contour after the
\* active one is flushed, a Close ends the active one, a Line adds an
\* on-curve point and a Quad a control point and an on-curve point
RECURSIVE ContoursOf(_, _, _, _)
ContoursOf(cmds, k, finished, active) ==
    LET flushed == IF active = << >> THEN finished
                   ELSE Append(finished, active)
    IN IF k > Len(cmds) THEN flushed
       ELSE LET a == cmds[k].args IN
            CASE cmds[k].cmd = "MoveTo" ->
                   ContoursOf(cmds, k + 1, flushed, << <<a[1].n, a[2].n, 1>> >>)
              [] cmds[k].cmd = "LineTo" ->
                   ContoursOf(cmds, k + 1, finished,
                              Append(active, <<a[1].n, a[2].n, 1>>))
              [] cmds[k].cmd = "QuadTo" ->
                   ContoursOf(cmds, k + 1, finished,
                              active \o << <<a[1].n, a[2].n, 0>>,
                                           <<a[3].n, a[4].n, 1>> >>)
              [] OTHER -> ContoursOf(cmds, k + 1, flushed, << >>)

RECURSIVE PointsOf(_)
PointsOf(contours) ==
    IF contours = << >> THEN << >>
    ELSE contours[1] \o PointsOf(Tail(contours))

\* the record b is the SimpleGlyph of these contours up to its flags: the
\* contour count, the end points, no instructions, a flag per point, and
\* room for two int16 per point after them
HasShape(b, contours, pts) ==
    /\ Len(contours) >= 1
    /\ BLen(b) = 12 + 2 * Len(contours) + 5 * Len(pts)
    /\ ReadI16BE(b, 0) = Len(contours)
    /\ \A k \in 1..Len(contours) :
          /\ ReadU16BE(b, 8 + 2 * k)
               = Len(PointsOf(SubSeq(contours, 1, k))) - 1
          /\ k > 1 => ReadU16BE(b, 8 + 2 * k) > ReadU16BE(b, 6 + 2 * k)
    /\ ReadU16BE(b, 8 + 2 * Len(contours)) = Len(pts) - 1
    /\ ReadU16BE(b, 10 + 2 * Len(contours)) = 0
    /\ \A i \in 1..Len(pts) :
          BAt(b, 11 + 2 * Len(contours) + i) = pts[i][3]

EncodedShape(r, contours) ==
    \A pts \in {PointsOf(contours)} :
       /\ BLen(r.val) = 0 <=> pts = << >>
       /\ pts # << >> => HasShape(r.val, contours, pts)

\* C22: for every cubic-free command list the encoder returns a record,
\* zero-length exactly when the list yields no points; otherwise
\* numberOfContours is the number of non-empty contours (at least 1),
\* endPtsOfContours is strictly increasing and ends at the number of points
\* minus one, instructionLength is 0, and there is one flag byte per point,
\* 1 for the points of Move, Line and Quad ends and 0 for Quad controls.
C22_EncodedShape ==
    EncodeReturned =>
       /\ ret.ok
       /\ \A contours \in {ContoursOf(call.cmds, 1, << >>, << >>)} :
             EncodedShape(ret, contours)

\* the record has that shape whenever the encoder returns one
EncodedShapeWhenReturned ==
    EncodeReturned =>
       /\ ~ret.ok => IsPanic(ret) /\ call.checked
       /\ ret.ok => \A contours \in {ContoursOf(call.cmds, 1, << >>, << >>)} :
                       EncodedShape(ret, contours)

\* two contours, the second begun by a Move that flushes the first, with a
\* Quad in it
TwoContoursEncoded ==
    /\ EncodeReturned /\ ret.ok
    /\ call.cmds = <<Cmd("MoveTo", <<0, 0>>), Cmd("QuadTo", <<1, 2, 3, 4>>),
                     Cmd("MoveTo", <<0, 0>>)>>
    /\ ReadI16BE(ret.val, 0) = 2

\* the x (axis 1) or y (axis 2) deltas written in record b for n points
\* after nc end points, summed up to point i
RECURSIVE RunningSum(_, _, _, _, _)
RunningSum(b, nc, n, axis, i) ==
    IF i = 0 THEN 0
    ELSE RunningSum(b, nc, n, axis, i - 1)
         + ReadI16BE(b, 12 + 2 * nc + n + 2 * n * (axis - 1) + 2 * (i - 1))

DeltasAddUp(b, contours, pts) ==
    \A i \in 1..Len(pts), axis \in 1..2 :
       RunningSum(b, Len(contours), Len(pts), axis, i) = pts[i][axis]

\* C23: for every list of points with coordinates in the signed 16-bit
\* range the delta computation does not overflow, and the running sum of
\* the written x deltas (and of the y deltas), from 0, is each point's x
\* (and y) coordinate.
C23_DeltasAddUp ==
    EncodeReturned =>
       /\ ~IsPanic(ret)
       /\ ret.ok =>
            \A contours \in {ContoursOf(call.cmds, 1, << >>, << >>)} :
               \A pts \in {PointsOf(contours)} :
                  DeltasAddUp(ret.val, contours, pts)

\* every coordinate is within 32767 of the one before it, and the first of 0
StepsFit(pts) ==
    \A i \in 1..Len(pts), axis \in 1..2 :
       LET d == pts[i][axis] - (IF i = 1 THEN 0 ELSE pts[i - 1][axis])
       IN -32768 <= d /\ d <= 32767

\* the deltas add up, without overflow, for points whose steps fit
DeltasAddUpWhenStepsFit ==
    EncodeReturned =>
       \A contours \in {ContoursOf(call.cmds, 1, << >>, << >>)} :
          \A pts \in {PointsOf(contours)} :
             StepsFit(pts) => ret.ok /\ DeltasAddUp(ret.val, contours, pts)

\* points with steps that fit, among them negative ones
StepsFitEncoded ==
    /\ EncodeReturned /\ ret.ok
    /\ call.cmds = <<Cmd("MoveTo", <<0, 0>>), Cmd("LineTo", <<10, -5>>),
                     Cmd("QuadTo", <<1, 2, 3, 4>>)>>

----------------------------------------------------------------------------
(* The tokeniser and the parser as calls, on every short string of an      *)
(* alphabet and on paths made of commands with too few, enough and too     *)
(* many numbers                                                            *)

MaxChars == 4

MaxSegments == 2

PathAlphabet == {"M", "1", ".", "e", "-", "+", ",", " ", "x"}

CharPaths == UNION { [1..n -> PathAlphabet] : n \in 0..MaxChars }

GoodNumber == <<"-", "2", ".", "5", "e", "-", "1">>

BadNumber == <<"1", "e">>

\* k numbers, each after a space, the one at place bad (if any) ill-formed
RECURSIVE NumberWords(_, _)
NumberWords(k, bad) ==
    IF k = 0 THEN << >>
    ELSE NumberWords(k - 1, bad) \o <<" ">>
         \o (IF k = bad THEN BadNumber ELSE GoodNumber)

Segments ==
    UNION { UNION { { <<l>> \o NumberWords(k, bad) : bad \in 0..k } :
                      k \in 0..(NumArgs(l) + 1) } :
              l \in {"M", "L", "Q", "C", "Z"} }

RECURSIVE JoinSegments(_)
JoinSegments(segs) ==
    IF segs = << >> THEN << >> ELSE segs[1] \o JoinSegments(Tail(segs))

WordPaths ==
    UNION { { JoinSegments(segs) : segs \in [1..n -> Segments] } :
              n \in 1..MaxSegments }

PathCalls ==
    { [fn |-> f, path |-> path] :
        f \in {"tokenize_svg_path", "parse_svg_path_cmds"},
        path \in CharPaths \cup WordPaths }

InitPath ==
    /\ MachineIdle
    /\ call \in PathCalls
    /\ ret = None

CallTokenize ==
    /\ call # None /\ call.fn = "tokenize_svg_path" /\ ret = None
    /\ ret' = [tokens |-> tokenize_svg_path(call.path)]
    /\ UNCHANGED call
    /\ MachineUnchanged

CallParse ==
    /\ call # None /\ call.fn = "parse_svg_path_cmds" /\ ret = None
    /\ ret' = parse_svg_path_cmds(call.path)
    /\ UNCHANGED call
    /\ MachineUnchanged

NextPath == CallTokenize \/ CallParse

SpecPath == InitPath /\ [][NextPath]_vars

----------------------------------------------------------------------------
(* Claims about the tokeniser and the parser *)

ParseReturned ==
    call # None /\ call.fn = "parse_svg_path_cmds" /\ ret # None

TokenizeReturned ==
    call # None /\ call.fn = "tokenize_svg_path" /\ ret # None

\* what the tokeniser makes of each character of a path, stated by place:
\* a command letter, a digit and a decimal point are always taken; an
\* exponent letter is taken when it continues a number; a sign is taken
\* after a taken exponent letter, or when a digit or a decimal point follows
RECURSIVE Taken(_, _)
Taken(path, i) ==
    LET c == path[i]
        p == IF i > 1 THEN path[i - 1] ELSE " "
        after_exponent == i > 2 /\ p \in {"+", "-"} /\ path[i - 2] \in {"e", "E"}
                             /\ Taken(path, i - 2)
    IN CASE c \in CmdLetters \cup Digits \cup {"."} -> TRUE
         [] c \in {"e", "E"} ->
              \/ p \in Digits \cup {"."}
              \/ p \in {"e", "E"} /\ Taken(path, i - 1)
              \/ after_exponent
         [] c \in {"+", "-"} ->
              \/ p \in {"e", "E"} /\ Taken(path, i - 1)
              \/ i < Len(path) /\ path[i + 1] \in Digits \cup {"."}
         [] OTHER -> FALSE

ExponentSign(path, i) ==
    /\ path[i] \in {"+", "-"} /\ i > 1
    /\ path[i - 1] \in {"e", "E"} /\ Taken(path, i - 1)

\* a token starts at a taken character that is a command letter, or that
\* follows no taken character of a number, or that is a leading sign
Starts(path, i) ==
    /\ Taken(path, i)
    /\ \/ path[i] \in CmdLetters
       \/ i = 1
       \/ ~Taken(path, i - 1)
       \/ path[i - 1] \in CmdLetters
       \/ path[i] \in {"+", "-"} /\ ~ExponentSign(path, i)

RECURSIVE TokenEnd(_, _)
TokenEnd(path, i) ==
    IF i < Len(path) /\ Taken(path, i + 1) /\ ~Starts(path, i + 1)
    THEN TokenEnd(path, i + 1) ELSE i

RECURSIVE TokensFrom(_, _)
TokensFrom(path, i) ==
    IF i > Len(path) THEN << >>
    ELSE IF Starts(path, i)
    THEN <<SubSeq(path, i, TokenEnd(path, i))>> \o TokensFrom(path, i + 1)
    ELSE TokensFrom(path, i + 1)

IsCommandToken(t) == Len(t) = 1 /\ t[1] \in CmdLetters

IsNumberToken(t) ==
    /\ t # << >>
    /\ \A k \in 1..Len(t) : t[k] \in Digits \cup {".", "e", "E", "+", "-"}

\* C25 (as stated): the tokeniser returns, in input order, only single
\* command letters and non-empty number strings, no token for whitespace
\* and commas, and a '+' or '-' that is not followed by a digit is
\* discarded: no more tokens begin with a sign than there are signs with a
\* digit after them.
C25_TokensAsStated ==
    TokenizeReturned =>
       /\ \A n \in 1..Len(ret.tokens) : IsCommandToken(ret.tokens[n]) \/ IsNumberToken(ret.tokens[n])
       /\ Cardinality({ n \in 1..Len(ret.tokens) : ret.tokens[n][1] \in {"+", "-"} })
            <= Cardinality({ i \in 1..Len(call.path) :
                               /\ call.path[i] \in {"+", "-"}
                               /\ i < Len(call.path)
                               /\ call.path[i + 1] \in Digits })

\* C25: the tokeniser returns, in input order, only single command letters
\* and non-empty number strings; whitespace, commas and other characters
\* produce no token; a '+' or '-' is discarded unless a digit or a decimal
\* point follows it or it follows the exponent letter of a number; a
\* leading sign, digits, decimal points and e/E exponents with their
\* optional signs stay together in one number token.
C25_Tokens ==
    TokenizeReturned =>
       /\ \A n \in 1..Len(ret.tokens) : IsCommandToken(ret.tokens[n]) \/ IsNumberToken(ret.tokens[n])
       /\ ret.tokens = TokensFrom(call.path, 1)

\* a sign kept before a decimal point, in one token with what follows
C25_Witness ==
    /\ TokenizeReturned
    /\ call.path = <<"-", ".", "1", "e">>
    /\ ret.tokens = <<call.path>>

\* a whole number with sign, point and signed exponent is one token
WholeNumberTokenized ==
    /\ TokenizeReturned
    /\ call.path = <<"M">> \o NumberWords(2, 0)
    /\ ret.tokens = << <<"M">>, GoodNumber, GoodNumber >>

IsDecimal(t) == parse_f32(t).ok

Needs(letter) ==
    CASE letter \in {"M", "m", "L", "l"} -> 2
      [] letter \in {"Q", "q"} -> 4
      [] letter \in {"C", "c"} -> 6
      [] OTHER -> 0

\* the command letter at token i has fewer number tokens after it than it
\* needs, before the next command letter or the end
TooFewNumbers(tokens, i) ==
    /\ IsCommandToken(tokens[i])
    /\ \E j \in 1..Needs(tokens[i][1]) :
          i + j > Len(tokens) \/ IsCommandToken(tokens[i + j])

\* one of the numbers the command letter at token i needs is no decimal
BadArgument(tokens, i) ==
    /\ IsCommandToken(tokens[i])
    /\ \E j \in 1..Needs(tokens[i][1]) :
          i + j <= Len(tokens) /\ ~IsDecimal(tokens[i + j])

\* C24 (as stated): the parser returns BadPath for every path in which a
\* command letter is followed by too few number tokens and for every path
\* that contains a number token that is not a valid decimal number.
C24_BadPathAsStated ==
    ParseReturned =>
       \A tokens \in {tokenize_svg_path(call.path)} :
          (\/ \E i \in 1..Len(tokens) : TooFewNumbers(tokens, i)
           \/ \E i \in 1..Len(tokens) :
                 ~IsCommandToken(tokens[i]) /\ ~IsDecimal(tokens[i]))
          => ret = Err("BadPath")

\* C24: the parser returns BadPath, and no command list, exactly for the
\* paths in which M, L, Q or C is followed by fewer than 2, 2, 4 or 6
\* number tokens before the next command letter or the end, or in which one
\* of those 2, 2, 4 or 6 tokens is not a valid decimal number; a number
\* token that belongs to no command is skipped, valid or not.
C24_BadPath ==
    ParseReturned =>
       \A tokens \in {tokenize_svg_path(call.path)} :
          (\E i \in 1..Len(tokens) :
              TooFewNumbers(tokens, i) \/ BadArgument(tokens, i))
          <=> ret = Err("BadPath")

\* a Q with three numbers is refused
C24_Witness ==
    /\ ParseReturned
    /\ call.path = <<"Q">> \o NumberWords(3, 0)
    /\ ret = Err("BadPath")

\* a number that is no decimal is skipped after a complete M
StrayNumberSkipped ==
    /\ ParseReturned
    /\ call.path = <<"M">> \o NumberWords(3, 3)
    /\ ret.ok /\ Len(ret.val) = 1

----------------------------------------------------------------------------
(* Claims about the cache machine: what is cached, panics, locks, edits *)

\* C26: in every quiescent state, whatever the interleaving of
\* get_glyph_outlines_binary, parse_font and the mutating operations, an
\* OutlineSet cached for the path was extracted from the bytes that are
\* cached for the path.
C26_OutlinesOfCachedBytes ==
    (Quiescent /\ fonts # None /\ outlines # None) =>
        \A built \in {build_cached_outlines(fonts)} :
            built.ok /\ outlines = built.val

\* C27: get_glyph_outlines_binary never panics: when it serves the page the
\* OutlineSet of the path is in the outlines cache, also when a mutating
\* operation of another thread has run between the insertion and the serving.
C27_ServeFindsOutlines ==
    \A t \in Threads :
        Running(t, Pages) =>
           /\ (pc[t] = "gb_serve" /\ outlines_lock = t) => outlines # None
           /\ pc[t] = "done" => ~IsPanic(result[t])

\* no thread holds the bytes lock and the outlines lock together
NoNestedLocks == \A t \in Threads : ~(fonts_lock = t /\ outlines_lock = t)

Started(t) == op[t] # None

Returned(t) == pc[t] = "done" /\ ~IsPanic(result[t])

\* C28: no operation takes one of the two cache locks while it holds the
\* other, and under fair scheduling every started operation eventually
\* returns.
C28_EveryOperationReturns ==
    /\ []NoNestedLocks
    /\ \A t \in Threads : Started(t) ~> Returned(t)

\* under fair scheduling every started operation eventually ends, by
\* returning or by panicking, and never waits for a lock for ever
EveryOperationEnds ==
    /\ []NoNestedLocks
    /\ \A t \in Threads : Started(t) ~> (pc[t] = "done")

TableEditors ==
    {"update_head_table", "update_hhea_table", "update_maxp_table",
     "update_name_table"}

TableOf(fn) ==
    CASE fn = "update_head_table" -> "head"
      [] fn = "update_hhea_table" -> "hhea"
      [] fn = "update_maxp_table" -> "maxp"
      [] fn = "update_name_table" -> "name"

\* the font f contains the edit of the operation o: making the edit again
\* leaves the edited table as it is
ContainsEdit(f, o) ==
    /\ f # None /\ f.kind = "font"
    /\ \A again \in {new_font_bytes(o, f, FALSE)} :
          /\ again.ok
          /\ again.val.tables[TableOf(o.fn)] = f.tables[TableOf(o.fn)]

\* C29: when two mutating operations on the path that edit different tables
\* run concurrently and both return success, the font on disk and the font
\* in the cache contain both edits.
C29_BothEditsKept ==
    \A t, u \in Threads :
        (/\ t # u /\ Quiescent
         /\ Running(t, TableEditors) /\ Running(u, TableEditors)
         /\ op[t].fn # op[u].fn
         /\ result[t].ok /\ result[u].ok)
            => /\ ContainsEdit(disk, op[t]) /\ ContainsEdit(disk, op[u])
               /\ ContainsEdit(fonts, op[t]) /\ ContainsEdit(fonts, op[u])

\* two edits of different tables, one after the other, are both kept
BothEditsKeptInTurn ==
    \E t, u \in Threads :
        /\ t # u /\ Quiescent
        /\ Running(t, {"update_head_table"}) /\ Running(u, {"update_name_table"})
        /\ result[t].ok /\ result[u].ok
        /\ ContainsEdit(disk, op[t]) /\ ContainsEdit(disk, op[u])
        /\ ContainsEdit(fonts, op[t]) /\ ContainsEdit(fonts, op[u])

\* the record of glyph gid in the font f, by the font's loca
GlyphRecord(f, gid) ==
    LET offsets == FontOffsets(f)
    IN BSlice(f.tables["glyf"], offsets[gid + 1], offsets[gid + 2])

\* thread t has read a font in which the glyph it is to patch is a simple
\* glyph: a record whose numberOfContours is zero or positive
TargetIsSimple(t) ==
    /\ Running(t, {"update_composite_offsets"})
    /\ bytes[t] # None /\ bytes[t].kind = "font"
    /\ GlyfTablesPresent(bytes[t])
    /\ \A gid \in {ToNat(op[t].composite_glyph_id)} :
          /\ gid < NumGlyphs(bytes[t])
          /\ \A record \in {GlyphRecord(bytes[t], gid)} :
                BLen(record) >= 2 /\ ReadI16BE(record, 0) >= 0

\* C30: update_composite_offsets rewrites only composite glyphs: when the
\* target glyph is a simple glyph the operation fails, and the file and the
\* cached bytes stay as they are.
C30_SimpleGlyphRefused ==
    [][\A t \in Threads :
          (pc[t] = "compute" /\ pc'[t] # "compute" /\ TargetIsSimple(t))
             => /\ pc'[t] = "done"
                /\ ~result'[t].ok /\ ~IsPanic(result'[t])
                /\ disk' = disk /\ fonts' = fonts]_vars

\* an update_composite_offsets on a simple glyph is about to write the font
SimpleGlyphRewritten ==
    \E t \in Threads :
        /\ TargetIsSimple(t) /\ pc[t] = "write"
        /\ new_bytes[t] # bytes[t]

====
